---- MODULE Spec2Model ----
(***************************************************************************)
(* Model of the AugmentedChords guitar tuner engine (tuner.ts).            *)
(*                                                                         *)
(* Number representation (JavaScript doubles become fixed-point integers): *)
(*   frequencies      centi-hertz         (82.41 Hz   -> 8241)             *)
(*   signal strength  thousandths         (0.03       -> 30, 1 -> 1000)    *)
(*   audio samples    thousandths of full scale (0.2  -> 200)              *)
(*   timestamps       milliseconds, as Date.now()                          *)
(*   cents            integers, as Math.round returns them                 *)
(* Strings are sequences of one-character strings, so that startsWith,     *)
(* includes and the tune-to regular expression are computed on characters. *)
(* A nullable value (T | null) is <<>> for null and <<v>> for the value v. *)
(* Where a division can fail to give a finite number, a number is a record *)
(* [kind, value]: Finite(v), NaN, PosInfinity or NegInfinity.              *)
(*                                                                         *)
(* Spec drives the engine with audio frames, pauses and voice commands.    *)
(* CallSpec takes the functions of tuner.ts one call at a time.            *)
(* HeapSpec runs the engine on a heap of objects and references.           *)
(* SheetSpec drives the sheet-music app (index.ts) with voice commands,    *)
(* key presses and timer callbacks.                                        *)
(* PitchSpec drives the pitch app's handlers (audio chunks and the         *)
(* "pitch off" / "pitch on" transcriptions) around the engine.             *)
(***************************************************************************)
EXTENDS Integers, Sequences, FiniteSets, TLC

VARIABLES
  tunerState,   \* the caller's current TunerState value
  now,          \* the clock read by Date.now()
  lastOp,       \* the last step taken and its input
  log,          \* signalStrength and timestamp of every frame processed while Active
  nFrames,      \* audio frames delivered
  nEvents,      \* steps other than the ordinary quiet frame
  call,         \* CallSpec: the function called and its arguments
  result,       \* CallSpec: what the call returned; null until it returns
  heap,         \* HeapSpec: the objects allocated so far and the driver's reference
  app           \* SheetSpec, PitchSpec: the app object, its timers and the display

vars == <<tunerState, now, lastOp, log, nFrames, nEvents, call, result, heap, app>>

\* ---------------------------------------------------------------- bounds
MaxFrames == 12
MaxEvents == 2
MaxPrefixLen == 2
MaxSpectrumLen == 4
MaxWindowLen == 4
MaxHeapFrames == 11
MaxHeapEvents == 2

\* ------------------------------------------------------------- constants
VOLUME_THRESHOLD == 30
DETECTION_HISTORY_SIZE == 10
MIN_FREQUENCY == 7000
MAX_FREQUENCY == 35000
STALE_MS == 30000
OPEN_STRING_BONUS == 5
RMS_REFERENCE == 100

\* the refined peak frequencies, inside the band, that frames carry
InBandRefined == {8241, 8400, 11000}

null == <<>>
Some(v) == <<v>>

Abs(x) == IF x < 0 THEN -x ELSE x

NOTE_FREQUENCIES ==
  <<
     [note |-> <<"A", "0">>, freq |-> 2750], [note |-> <<"A", "#", "0">>, freq |-> 2914], [note |-> <<"B", "0">>, freq |-> 3087],
     [note |-> <<"C", "1">>, freq |-> 3270], [note |-> <<"C", "#", "1">>, freq |-> 3465], [note |-> <<"D", "1">>, freq |-> 3671],
     [note |-> <<"D", "#", "1">>, freq |-> 3889], [note |-> <<"E", "1">>, freq |-> 4120], [note |-> <<"F", "1">>, freq |-> 4365],
     [note |-> <<"F", "#", "1">>, freq |-> 4625], [note |-> <<"G", "1">>, freq |-> 4900], [note |-> <<"G", "#", "1">>, freq |-> 5191],
     [note |-> <<"A", "1">>, freq |-> 5500], [note |-> <<"A", "#", "1">>, freq |-> 5827], [note |-> <<"B", "1">>, freq |-> 6174],
     [note |-> <<"C", "2">>, freq |-> 6541], [note |-> <<"C", "#", "2">>, freq |-> 6930], [note |-> <<"D", "2">>, freq |-> 7342],
     [note |-> <<"D", "#", "2">>, freq |-> 7778], [note |-> <<"E", "2">>, freq |-> 8241], [note |-> <<"F", "2">>, freq |-> 8731],
     [note |-> <<"F", "#", "2">>, freq |-> 9250], [note |-> <<"G", "2">>, freq |-> 9800], [note |-> <<"G", "#", "2">>, freq |-> 10383],
     [note |-> <<"A", "2">>, freq |-> 11000], [note |-> <<"A", "#", "2">>, freq |-> 11654], [note |-> <<"B", "2">>, freq |-> 12347],
     [note |-> <<"C", "3">>, freq |-> 13081], [note |-> <<"C", "#", "3">>, freq |-> 13859], [note |-> <<"D", "3">>, freq |-> 14683],
     [note |-> <<"D", "#", "3">>, freq |-> 15556], [note |-> <<"E", "3">>, freq |-> 16481], [note |-> <<"F", "3">>, freq |-> 17461],
     [note |-> <<"F", "#", "3">>, freq |-> 18500], [note |-> <<"G", "3">>, freq |-> 19600], [note |-> <<"G", "#", "3">>, freq |-> 20765],
     [note |-> <<"A", "3">>, freq |-> 22000], [note |-> <<"A", "#", "3">>, freq |-> 23308], [note |-> <<"B", "3">>, freq |-> 24694],
     [note |-> <<"C", "4">>, freq |-> 26163], [note |-> <<"C", "#", "4">>, freq |-> 27718], [note |-> <<"D", "4">>, freq |-> 29366],
     [note |-> <<"D", "#", "4">>, freq |-> 31113], [note |-> <<"E", "4">>, freq |-> 32963], [note |-> <<"F", "4">>, freq |-> 34923],
     [note |-> <<"F", "#", "4">>, freq |-> 36999], [note |-> <<"G", "4">>, freq |-> 39200], [note |-> <<"G", "#", "4">>, freq |-> 41530],
     [note |-> <<"A", "4">>, freq |-> 44000], [note |-> <<"A", "#", "4">>, freq |-> 46616], [note |-> <<"B", "4">>, freq |-> 49388],
     [note |-> <<"C", "5">>, freq |-> 52325], [note |-> <<"C", "#", "5">>, freq |-> 55437], [note |-> <<"D", "5">>, freq |-> 58733],
     [note |-> <<"D", "#", "5">>, freq |-> 62225], [note |-> <<"E", "5">>, freq |-> 65925], [note |-> <<"F", "5">>, freq |-> 69846],
     [note |-> <<"F", "#", "5">>, freq |-> 73999], [note |-> <<"G", "5">>, freq |-> 78399], [note |-> <<"G", "#", "5">>, freq |-> 83061],
     [note |-> <<"A", "5">>, freq |-> 88000], [note |-> <<"A", "#", "5">>, freq |-> 93233], [note |-> <<"B", "5">>, freq |-> 98777],
     [note |-> <<"C", "6">>, freq |-> 104650], [note |-> <<"C", "#", "6">>, freq |-> 110873], [note |-> <<"D", "6">>, freq |-> 117466],
     [note |-> <<"D", "#", "6">>, freq |-> 124451], [note |-> <<"E", "6">>, freq |-> 131851], [note |-> <<"F", "6">>, freq |-> 139691],
     [note |-> <<"F", "#", "6">>, freq |-> 147998], [note |-> <<"G", "6">>, freq |-> 156798], [note |-> <<"G", "#", "6">>, freq |-> 166122],
     [note |-> <<"A", "6">>, freq |-> 176000], [note |-> <<"A", "#", "6">>, freq |-> 186466], [note |-> <<"B", "6">>, freq |-> 197553],
     [note |-> <<"C", "7">>, freq |-> 209300], [note |-> <<"C", "#", "7">>, freq |-> 221746], [note |-> <<"D", "7">>, freq |-> 234932],
     [note |-> <<"D", "#", "7">>, freq |-> 248902], [note |-> <<"E", "7">>, freq |-> 263702], [note |-> <<"F", "7">>, freq |-> 279383],
     [note |-> <<"F", "#", "7">>, freq |-> 295996], [note |-> <<"G", "7">>, freq |-> 313596], [note |-> <<"G", "#", "7">>, freq |-> 332244],
     [note |-> <<"A", "7">>, freq |-> 352000], [note |-> <<"A", "#", "7">>, freq |-> 372931], [note |-> <<"B", "7">>, freq |-> 395107],
     [note |-> <<"C", "8">>, freq |-> 418601]
  >>

CentsThresholds ==
  <<
     1048879, 1049485, 1050092, 1050699, 1051306, 1051913, 1052521, 1053129, 1053737, 1054346,
     1054955, 1055565, 1056175, 1056785, 1057396, 1058007, 1058618, 1059230, 1059842, 1060454,
     1061067, 1061680, 1062293, 1062907, 1063521, 1064136, 1064751, 1065366, 1065981, 1066597,
     1067213, 1067830, 1068447, 1069064, 1069682, 1070300, 1070919, 1071537, 1072156, 1072776,
     1073396, 1074016, 1074637, 1075257, 1075879, 1076500, 1077122, 1077745, 1078367, 1078990,
     1079614, 1080238, 1080862, 1081486, 1082111, 1082736, 1083362, 1083988, 1084614, 1085241,
     1085868, 1086495, 1087123, 1087751, 1088380, 1089009, 1089638, 1090267, 1090897, 1091528,
     1092158, 1092789, 1093421, 1094053, 1094685, 1095317, 1095950, 1096583, 1097217, 1097851,
     1098485, 1099120, 1099755, 1100390, 1101026, 1101662, 1102299, 1102936, 1103573, 1104211,
     1104849, 1105487, 1106126, 1106765, 1107404, 1108044, 1108684, 1109325, 1109966, 1110607,
     1111249, 1111891, 1112533, 1113176, 1113819, 1114463, 1115107, 1115751, 1116396, 1117041,
     1117686, 1118332, 1118978, 1119625, 1120272, 1120919, 1121567, 1122215, 1122863, 1123512,
     1124161, 1124811, 1125460, 1126111, 1126761, 1127412, 1128064, 1128716, 1129368, 1130020,
     1130673, 1131327, 1131980, 1132634, 1133289, 1133943, 1134599, 1135254, 1135910, 1136566,
     1137223, 1137880, 1138538, 1139196, 1139854, 1140512, 1141171, 1141831, 1142490, 1143151,
     1143811, 1144472, 1145133, 1145795, 1146457, 1147119, 1147782, 1148445, 1149109, 1149773,
     1150437, 1151102, 1151767, 1152432, 1153098, 1153764, 1154431, 1155098, 1155766, 1156433,
     1157101, 1157770, 1158439, 1159108, 1159778, 1160448, 1161119, 1161790, 1162461, 1163132,
     1163804, 1164477, 1165150, 1165823, 1166497, 1167171, 1167845, 1168520, 1169195, 1169870,
     1170546, 1171223, 1171899, 1172576, 1173254, 1173932, 1174610, 1175289, 1175968, 1176647,
     1177327, 1178007, 1178688, 1179369, 1180051, 1180732, 1181415, 1182097, 1182780, 1183464,
     1184147, 1184832, 1185516, 1186201, 1186887, 1187572, 1188258, 1188945, 1189632, 1190319,
     1191007, 1191695, 1192384, 1193073, 1193762, 1194452, 1195142, 1195833, 1196523, 1197215,
     1197907, 1198599, 1199291, 1199984, 1200678, 1201371, 1202065, 1202760, 1203455, 1204150,
     1204846, 1205542, 1206239, 1206936, 1207633, 1208331, 1209029, 1209727, 1210426, 1211126,
     1211826, 1212526, 1213226, 1213927, 1214629, 1215330, 1216033, 1216735, 1217438, 1218142,
     1218846, 1219550, 1220254, 1220960, 1221665, 1222371, 1223077, 1223784, 1224491, 1225198,
     1225906, 1226615, 1227323, 1228032, 1228742, 1229452, 1230162, 1230873, 1231584, 1232296,
     1233008, 1233720, 1234433, 1235146, 1235860, 1236574, 1237289, 1238003, 1238719, 1239434,
     1240151, 1240867, 1241584, 1242301, 1243019, 1243737, 1244456, 1245175, 1245895, 1246614,
     1247335, 1248055, 1248777, 1249498, 1250220, 1250942, 1251665, 1252388, 1253112, 1253836,
     1254560, 1255285, 1256011, 1256736, 1257462, 1258189, 1258916, 1259643, 1260371, 1261099,
     1261828, 1262557, 1263287, 1264017, 1264747, 1265478, 1266209, 1266940, 1267672, 1268405,
     1269138, 1269871, 1270605, 1271339, 1272073, 1272808, 1273544, 1274280, 1275016, 1275753,
     1276490, 1277227, 1277965, 1278704, 1279443, 1280182, 1280921, 1281662, 1282402, 1283143,
     1283884, 1284626, 1285368, 1286111, 1286854, 1287598, 1288342, 1289086, 1289831, 1290576,
     1291322, 1292068, 1292815, 1293562, 1294309, 1295057, 1295805, 1296554, 1297303, 1298052,
     1298802, 1299553, 1300304, 1301055, 1301807, 1302559, 1303312, 1304065, 1304818, 1305572,
     1306326, 1307081, 1307836, 1308592, 1309348, 1310105, 1310862, 1311619, 1312377, 1313135,
     1313894, 1314653, 1315413, 1316173, 1316933, 1317694, 1318455, 1319217, 1319979, 1320742,
     1321505, 1322269, 1323033, 1323797, 1324562, 1325327, 1326093, 1326859, 1327626, 1328393,
     1329160, 1329928, 1330697, 1331466, 1332235, 1333005, 1333775, 1334546, 1335317, 1336088,
     1336860, 1337633, 1338406, 1339179, 1339953, 1340727, 1341501, 1342277, 1343052, 1343828,
     1344605, 1345381, 1346159, 1346937, 1347715, 1348494, 1349273, 1350052, 1350832, 1351613,
     1352394, 1353175, 1353957, 1354739, 1355522, 1356305, 1357089, 1357873, 1358658, 1359443,
     1360228, 1361014, 1361800, 1362587, 1363375, 1364162, 1364950, 1365739, 1366528, 1367318,
     1368108, 1368898, 1369689, 1370481, 1371272, 1372065, 1372858, 1373651, 1374444, 1375239,
     1376033, 1376828, 1377624, 1378420, 1379216, 1380013, 1380810, 1381608, 1382407, 1383205,
     1384004, 1384804, 1385604, 1386405, 1387206, 1388007, 1388809, 1389612, 1390415, 1391218,
     1392022, 1392826, 1393631, 1394436, 1395242, 1396048, 1396855, 1397662, 1398469, 1399277,
     1400086, 1400895, 1401704, 1402514, 1403324, 1404135, 1404947, 1405758, 1406571, 1407383,
     1408196, 1409010, 1409824, 1410639, 1411454, 1412269, 1413085, 1413902, 1414719, 1415536,
     1416354, 1417172, 1417991, 1418811, 1419630, 1420451, 1421271, 1422092, 1422914, 1423736,
     1424559, 1425382, 1426206, 1427030, 1427854, 1428679, 1429505, 1430331, 1431157, 1431984,
     1432811, 1433639, 1434467, 1435296, 1436126, 1436955, 1437786, 1438616, 1439448, 1440279,
     1441111, 1441944, 1442777, 1443611, 1444445, 1445280, 1446115, 1446950, 1447786, 1448623,
     1449460, 1450297, 1451135, 1451974, 1452813, 1453652, 1454492, 1455332, 1456173, 1457015,
     1457856, 1458699, 1459542, 1460385, 1461229, 1462073, 1462918, 1463763, 1464609, 1465455,
     1466302, 1467149, 1467997, 1468845, 1469693, 1470543, 1471392, 1472242, 1473093, 1473944,
     1474796, 1475648, 1476501, 1477354, 1478207, 1479061, 1479916, 1480771, 1481627, 1482483,
     1483339, 1484196, 1485054, 1485912, 1486770, 1487629, 1488489, 1489349, 1490210, 1491071,
     1491932, 1492794, 1493657, 1494520, 1495383, 1496247, 1497112, 1497977, 1498842, 1499708,
     1500575, 1501442, 1502309, 1503177, 1504046, 1504915, 1505784, 1506654, 1507525, 1508396,
     1509268, 1510140, 1511012, 1511885, 1512759, 1513633, 1514507, 1515382, 1516258, 1517134,
     1518011, 1518888, 1519765, 1520643, 1521522, 1522401, 1523281, 1524161, 1525042, 1525923,
     1526804, 1527687, 1528569, 1529452, 1530336, 1531220, 1532105, 1532990, 1533876, 1534762,
     1535649, 1536536, 1537424, 1538312, 1539201, 1540091, 1540980, 1541871, 1542762, 1543653,
     1544545, 1545437, 1546330, 1547224, 1548118, 1549012, 1549907, 1550803, 1551699, 1552595,
     1553492, 1554390, 1555288, 1556187, 1557086, 1557986, 1558886, 1559786, 1560688, 1561589,
     1562492, 1563395, 1564298, 1565202, 1566106, 1567011, 1567916, 1568822, 1569729, 1570636,
     1571543, 1572451, 1573360, 1574269, 1575178, 1576089, 1576999, 1577910, 1578822, 1579734,
     1580647, 1581560, 1582474, 1583388, 1584303, 1585219, 1586135, 1587051, 1587968, 1588886,
     1589804, 1590722, 1591641, 1592561, 1593481, 1594402, 1595323, 1596245, 1597167, 1598090,
     1599013, 1599937, 1600862, 1601787, 1602712, 1603638, 1604565, 1605492, 1606419, 1607348,
     1608276, 1609205, 1610135, 1611066, 1611996, 1612928, 1613860, 1614792, 1615725, 1616659,
     1617593, 1618527, 1619463, 1620398, 1621335, 1622271, 1623209, 1624147, 1625085, 1626024,
     1626963, 1627904, 1628844, 1629785, 1630727, 1631669, 1632612, 1633555, 1634499, 1635443,
     1636388, 1637334, 1638280, 1639226, 1640174, 1641121, 1642070, 1643018, 1643968, 1644917,
     1645868, 1646819, 1647770, 1648722, 1649675, 1650628, 1651582, 1652536, 1653491, 1654446,
     1655402, 1656359, 1657316, 1658273, 1659232, 1660190, 1661149, 1662109, 1663070, 1664030,
     1664992, 1665954, 1666917, 1667880, 1668843, 1669808, 1670772, 1671738, 1672704, 1673670,
     1674637, 1675605, 1676573, 1677542, 1678511, 1679481, 1680451, 1681422, 1682394, 1683366,
     1684338, 1685311, 1686285, 1687259, 1688234, 1689210, 1690186, 1691162, 1692140, 1693117,
     1694095, 1695074, 1696054, 1697034, 1698014, 1698995, 1699977, 1700959, 1701942, 1702925,
     1703909, 1704894, 1705879, 1706864, 1707851, 1708837, 1709825, 1710813, 1711801, 1712790,
     1713780, 1714770, 1715761, 1716752, 1717744, 1718737, 1719730, 1720723, 1721718, 1722712,
     1723708, 1724704, 1725700, 1726697, 1727695, 1728693, 1729692, 1730691, 1731691, 1732692,
     1733693, 1734695, 1735697, 1736700, 1737703, 1738707, 1739712, 1740717, 1741723, 1742729,
     1743736, 1744744, 1745752, 1746761, 1747770, 1748780, 1749790, 1750801, 1751813, 1752825,
     1753838, 1754851, 1755865, 1756879, 1757895, 1758910, 1759926, 1760943, 1761961, 1762979,
     1763997, 1765017, 1766037, 1767057, 1768078, 1769099, 1770122, 1771144, 1772168, 1773192,
     1774216, 1775241, 1776267, 1777293, 1778320, 1779348, 1780376, 1781405, 1782434, 1783464,
     1784494, 1785525, 1786557, 1787589, 1788622, 1789655, 1790689, 1791724, 1792759, 1793795,
     1794832, 1795869, 1796906, 1797945, 1798983, 1800023, 1801063, 1802103, 1803145, 1804187,
     1805229, 1806272, 1807316, 1808360, 1809405, 1810450, 1811496, 1812543, 1813590, 1814638,
     1815687, 1816736, 1817785, 1818836, 1819887, 1820938, 1821990, 1823043, 1824096, 1825150,
     1826205, 1827260, 1828316, 1829372, 1830429, 1831487, 1832545, 1833604, 1834663, 1835723,
     1836784, 1837845, 1838907, 1839969, 1841033, 1842096, 1843161, 1844226, 1845291, 1846357,
     1847424, 1848492, 1849560, 1850628, 1851698, 1852767, 1853838, 1854909, 1855981, 1857053,
     1858126, 1859200, 1860274, 1861349, 1862424, 1863500, 1864577, 1865654, 1866732, 1867811,
     1868890, 1869970, 1871050, 1872132, 1873213, 1874296, 1875379, 1876462, 1877546, 1878631,
     1879717, 1880803, 1881889, 1882977, 1884065, 1885153, 1886242, 1887332, 1888423, 1889514,
     1890606, 1891698, 1892791, 1893885, 1894979, 1896074, 1897169, 1898266, 1899362, 1900460,
     1901558, 1902657, 1903756, 1904856, 1905956, 1907058, 1908160, 1909262, 1910365, 1911469,
     1912573, 1913678, 1914784, 1915891, 1916998, 1918105, 1919213, 1920322, 1921432, 1922542,
     1923653, 1924764, 1925876, 1926989, 1928103, 1929217, 1930331, 1931447, 1932563, 1933679,
     1934796, 1935914, 1937033, 1938152, 1939272, 1940392, 1941514, 1942635, 1943758, 1944881,
     1946005, 1947129, 1948254, 1949380, 1950506, 1951633, 1952761, 1953889, 1955018, 1956147,
     1957278, 1958409, 1959540, 1960672, 1961805, 1962939, 1964073, 1965208, 1966343, 1967479,
     1968616, 1969754, 1970892, 1972030, 1973170, 1974310, 1975451, 1976592, 1977734, 1978877,
     1980020, 1981164, 1982309, 1983454, 1984600, 1985747, 1986894, 1988042, 1989191, 1990340,
     1991490, 1992641, 1993792, 1994944, 1996097, 1997250, 1998404, 1999559, 2000714, 2001870,
     2003027, 2004184, 2005342, 2006501, 2007660, 2008820, 2009981, 2011142, 2012304, 2013467,
     2014630, 2015794, 2016959, 2018124, 2019290, 2020457, 2021625, 2022793, 2023961, 2025131,
     2026301, 2027472, 2028643, 2029815, 2030988, 2032162, 2033336, 2034511, 2035686, 2036862,
     2038039, 2039217, 2040395, 2041574, 2042753, 2043934, 2045115, 2046296, 2047479, 2048662,
     2049845, 2051030, 2052215, 2053401, 2054587, 2055774, 2056962, 2058150, 2059340, 2060529,
     2061720, 2062911, 2064103, 2065296, 2066489, 2067683, 2068878, 2070073, 2071269, 2072466,
     2073663, 2074862, 2076060, 2077260, 2078460, 2079661, 2080863, 2082065, 2083268, 2084472,
     2085676, 2086881, 2088087, 2089293, 2090501, 2091708, 2092917, 2094126, 2095336, 2096547
  >>

guitarOpenStrings ==
  { <<"E", "2">>, <<"A", "2">>, <<"D", "3">>, <<"G", "3">>, <<"B", "3">>, <<"E", "4">> }

\* ------------------------------------------------- calculateSignalStrength
RECURSIVE SumSquares(_)
SumSquares(s) == IF s = <<>> THEN 0 ELSE Head(s) * Head(s) + SumSquares(Tail(s))

\* floor of the square root, by bisection on [lo, hi]
RECURSIVE SqrtBetween(_, _, _)
SqrtBetween(n, lo, hi) ==
  IF lo >= hi THEN lo
  ELSE LET mid == (lo + hi + 1) \div 2
       IN  IF mid * mid <= n THEN SqrtBetween(n, mid, hi)
                             ELSE SqrtBetween(n, lo, mid - 1)

Min(a, b) == IF a < b THEN a ELSE b
Max(a, b) == IF a > b THEN a ELSE b

\* rms = sqrt(sum / length); result = min(1, max(0, rms / 0.1)).
\* With samples in thousandths, rms / 0.1 in thousandths is
\* sqrt(100 * sum / length); the clamp at 1 is the clamp at 1000.
calculateSignalStrength(audioData) ==
  LET sum == SumSquares(audioData)
      scaled == (RMS_REFERENCE * sum) \div Len(audioData)
      rms == SqrtBetween(scaled, 0, 2000)
  IN  Min(1000, Max(0, rms))

\* ------------------------------------------------- calculateCentsDeviation
\* Math.round(1200 * Math.log2(detectedFreq / targetFreq)), for positive
\* arguments.  The ratio is brought into [1, 2) by octave shifts, its
\* 20-bit mantissa is obtained by long division, and the cents inside the
\* octave are the number of half-cent boundaries the mantissa has passed
\* (CentsThresholds[k] is 2^20 * 2^((k - 1/2) / 1200), rounded up; the result
\* is that of the floating-point expression unless the ratio lies within a
\* thousandth of a cent of a half-cent boundary).
RECURSIVE OctaveUp(_, _, _)
OctaveUp(f, t, o) == IF f >= 2 * t THEN OctaveUp(f, 2 * t, o + 1) ELSE <<f, t, o>>

RECURSIVE OctaveDown(_, _, _)
OctaveDown(f, t, o) == IF f < t THEN OctaveDown(2 * f, t, o - 1) ELSE <<f, t, o>>

\* floor(2^20 * f / t) for t <= f < 2 * t, by long division in two
\* 10-bit steps (every intermediate value stays below 2^31)
Mantissa(f, t) ==
  LET r0 == (f - t) * 1024
      r1 == (r0 % t) * 1024
  IN  1048576 + (r0 \div t) * 1024 + (r1 \div t)

\* number of k in 1..1200 with CentsThresholds[k] <= m, searched in lo..hi
RECURSIVE CentsBelow(_, _, _)
CentsBelow(m, lo, hi) ==
  IF lo >= hi THEN lo
  ELSE LET mid == (lo + hi + 1) \div 2
       IN  IF CentsThresholds[mid] <= m THEN CentsBelow(m, mid, hi)
                                        ELSE CentsBelow(m, lo, mid - 1)

calculateCentsDeviation(detectedFreq, targetFreq) ==
  LET n == IF detectedFreq >= targetFreq
           THEN OctaveUp(detectedFreq, targetFreq, 0)
           ELSE OctaveDown(detectedFreq, targetFreq, 0)
      m == Mantissa(n[1], n[2])
  IN  1200 * n[3] + CentsBelow(m, 0, 1200)

\* --------------------------------------------------- findClosestGuitarNote
\* the loop without the preference for the open strings
closestStep_noBonus(frequency, acc, i) ==
  LET e == NOTE_FREQUENCIES[i]
      centsDeviation == Abs(calculateCentsDeviation(frequency, e.freq))
  IN  IF acc[2] = null \/ centsDeviation < acc[2][1]
      THEN <<e.note, Some(centsDeviation)>>
      ELSE acc

\* One iteration of the loop over Object.entries(NOTE_FREQUENCIES): acc is
\* <<closestNote, smallestDifferenceInCents>>, and Infinity is null.
closestStep(frequency, acc, i) ==
  LET e == NOTE_FREQUENCIES[i]
      centsDeviation == Abs(calculateCentsDeviation(frequency, e.freq))
      score == IF e.note \in guitarOpenStrings
               THEN centsDeviation - OPEN_STRING_BONUS
               ELSE centsDeviation
  IN  IF acc[2] = null \/ score < acc[2][1]
      THEN <<e.note, Some(centsDeviation)>>
      ELSE acc

\* the iterations lo..hi in order (split in halves to keep the evaluation shallow)
RECURSIVE ClosestOver(_, _, _, _)
ClosestOver(frequency, acc, lo, hi) ==
  IF lo = hi THEN closestStep(frequency, acc, lo)
  ELSE LET mid == (lo + hi) \div 2
           left == ClosestOver(frequency, acc, lo, mid)
       IN  IF Len(left) = 2 THEN ClosestOver(frequency, left, mid + 1, hi) ELSE left

closestNoteLoop(frequency) ==
  ClosestOver(frequency, <<<<>>, null>>, 1, Len(NOTE_FREQUENCIES))[1]

\* 0.7 * new + 0.3 * previous when the change is under 3 percent, else
\* 0.9 * new + 0.1 * previous; rounded to the nearest centi-hertz
smoothFrequency_threePercentIsClose(detectedFrequency, previous) ==
  IF previous = null THEN detectedFrequency
  ELSE IF 100 * Abs(detectedFrequency - previous[1]) <= 3 * previous[1]
       THEN (7 * detectedFrequency + 3 * previous[1] + 5) \div 10
       ELSE (9 * detectedFrequency + previous[1] + 5) \div 10

smoothFrequency(detectedFrequency, previous) ==
  IF previous = null THEN detectedFrequency
  ELSE IF 100 * Abs(detectedFrequency - previous[1]) < 3 * previous[1]
       THEN (7 * detectedFrequency + 3 * previous[1] + 5) \div 10
       ELSE (9 * detectedFrequency + previous[1] + 5) \div 10

\* The frequencies the frames of this model can store: the in-band refined
\* frequencies and their blends, to the depth the pitched frames allow.
RECURSIVE StoredFrequencies(_)
StoredFrequencies(depth) ==
  IF depth = 0 THEN InBandRefined
  ELSE LET before == StoredFrequencies(depth - 1)
       IN  before \cup {smoothFrequency(r, Some(p)) : r \in InBandRefined, p \in before}

\* The loop's result, evaluated once for each of these frequencies.
closestNoteTable == [f \in StoredFrequencies(MaxEvents) |-> closestNoteLoop(f)]

findClosestGuitarNote(frequency) ==
  IF frequency \in DOMAIN closestNoteTable
  THEN closestNoteTable[frequency]
  ELSE closestNoteLoop(frequency)

\* ------------------------------------------------------ getTargetFrequency
startsWith(s, prefix) ==
  /\ Len(prefix) <= Len(s)
  /\ SubSeq(s, 1, Len(prefix)) = prefix

\* the last matching entry instead of the first
getTargetFrequency_lastMatch(note) ==
  LET matching == {i \in 1..Len(NOTE_FREQUENCIES) : startsWith(NOTE_FREQUENCIES[i].note, note)}
      last == CHOOSE i \in matching : \A j \in matching : j <= i
      E2 == CHOOSE i \in 1..Len(NOTE_FREQUENCIES) : NOTE_FREQUENCIES[i].note = <<"E", "2">>
  IN  IF matching # {} THEN NOTE_FREQUENCIES[last].freq ELSE NOTE_FREQUENCIES[E2].freq

\* the first entry, in Object.entries order, whose name starts with note;
\* NOTE_FREQUENCIES['E2'] when there is none
getTargetFrequency(note) ==
  LET matching == {i \in 1..Len(NOTE_FREQUENCIES) : startsWith(NOTE_FREQUENCIES[i].note, note)}
      first == CHOOSE i \in matching : \A j \in matching : i <= j
      E2 == CHOOSE i \in 1..Len(NOTE_FREQUENCIES) : NOTE_FREQUENCIES[i].note = <<"E", "2">>
  IN  IF matching # {} THEN NOTE_FREQUENCIES[first].freq ELSE NOTE_FREQUENCIES[E2].freq

\* ------------------------------------------------------ spectral analysis
\* A JavaScript number that may fail to be finite: a division by zero gives
\* Infinity, -Infinity or NaN.  A finite frequency is in centi-hertz.
Finite(v) == [kind |-> "finite", value |-> v]
NaN == [kind |-> "NaN", value |-> 0]
PosInfinity == [kind |-> "Infinity", value |-> 0]
NegInfinity == [kind |-> "-Infinity", value |-> 0]

\* a / b rounded to the nearest integer, for b # 0
RoundDiv(a, b) ==
  LET n == IF b < 0 THEN -a ELSE a
      d == IF b < 0 THEN -b ELSE b
  IN  (2 * n + d) \div (2 * d)

\* Math.pow(2, Math.ceil(Math.log2(n))), for n >= 1
RECURSIVE PowerOf2From(_, _)
PowerOf2From(n, p) == IF p >= n THEN p ELSE PowerOf2From(n, 2 * p)
nextPowerOf2(n) == PowerOf2From(n, 1)

\* ------------------------------------------------------- applyHammingWindow
\* Math.cos(2 * Math.PI * i / (N - 1)) in thousandths: row N - 1 holds the
\* values for i = 0 .. N - 1
CosineThousandths ==
  << <<1000, 1000>>,
     <<1000, -1000, 1000>>,
     <<1000, -500, -500, 1000>>,
     <<1000, 0, -1000, 0, 1000>>,
     <<1000, 309, -809, -809, 309, 1000>>,
     <<1000, 500, -500, -1000, -500, 500, 1000>>,
     <<1000, 623, -223, -901, -901, -223, 623, 1000>> >>

\* 0.54 - 0.46 * Math.cos(2 * Math.PI * i / (N - 1)), in thousandths.  For
\* N = 1 the argument of the cosine is 0 / 0, which is NaN, and so is the value.
windowValue(i, N) ==
  IF N - 1 = 0 THEN NaN
  ELSE Finite(RoundDiv(540000 - 460 * CosineThousandths[N - 1][i + 1], 1000))

\* windowedData[i] = audioData[i] * windowValue; a product with NaN is NaN
applyHammingWindow(audioData) ==
  [i \in 1..Len(audioData) |->
     LET w == windowValue(i - 1, Len(audioData))
     IN  IF w.kind = "NaN" THEN NaN
         ELSE Finite(RoundDiv(audioData[i] * w.value, 1000))]

\* A magnitude spectrum is the sequence of its bins in thousandths, bin i of
\* the source being element i + 1; peakValue < 0.01 is peakValue < 10.
PEAK_FLOOR == 10

\* the bin of the first strictly greatest magnitude between minIndex and
\* maxIndex (a bin beyond the spectrum is undefined and never greater)
findPeakFrequency(magnitudeSpectrum, sampleRate, fftSize) ==
  LET minIndex == (MIN_FREQUENCY * fftSize) \div (100 * sampleRate)
      maxIndex == -((-(MAX_FREQUENCY * fftSize)) \div (100 * sampleRate))
      bins == {i \in minIndex..maxIndex :
                 i < Len(magnitudeSpectrum) /\ magnitudeSpectrum[i + 1] > 0}
      peakIndex == IF bins = {} THEN -1
                   ELSE CHOOSE i \in bins :
                          /\ \A j \in bins : magnitudeSpectrum[j + 1] <= magnitudeSpectrum[i + 1]
                          /\ \A j \in bins : j < i => magnitudeSpectrum[j + 1] < magnitudeSpectrum[i + 1]
      peakValue == IF peakIndex = -1 THEN 0 ELSE magnitudeSpectrum[peakIndex + 1]
  IN  IF peakValue < PEAK_FLOOR \/ peakIndex = -1 THEN null
      ELSE Some([frequency |-> RoundDiv(100 * peakIndex * sampleRate, fftSize),
                 index |-> peakIndex])

\* the raw bin frequency peakIndex * sampleRate / fftSize
binFrequency(peakIndex, sampleRate, fftSize) ==
  Finite(RoundDiv(100 * peakIndex * sampleRate, fftSize))

\* p = 0.5 * (alpha - gamma) / (alpha - 2 * beta + gamma), and the result is
\* (peakIndex + p) * sampleRate / fftSize.  The quotient is taken whatever
\* the denominator: a zero denominator gives Infinity, -Infinity or NaN.
interpolated(alpha, beta, gamma, peakIndex, sampleRate, fftSize) ==
  LET numerator == alpha - gamma
      denominator == alpha - 2 * beta + gamma
  IN  IF denominator = 0
      THEN IF numerator = 0 THEN NaN
           ELSE IF numerator > 0 THEN PosInfinity ELSE NegInfinity
      ELSE Finite(RoundDiv(100 * sampleRate * (2 * peakIndex * denominator + numerator),
                           2 * denominator * fftSize))

\* the bin at index i, or null (undefined) outside the spectrum; arithmetic
\* on undefined gives NaN
binOrUndefined(magnitudeSpectrum, i) ==
  IF i >= 0 /\ i < Len(magnitudeSpectrum) THEN Some(magnitudeSpectrum[i + 1]) ELSE null

\* the edge bins are interpolated like the others
refineFrequencyEstimate_noEdgeGuard(magnitudeSpectrum, peakIndex, sampleRate, fftSize) ==
  LET alpha == binOrUndefined(magnitudeSpectrum, peakIndex - 1)
      beta == binOrUndefined(magnitudeSpectrum, peakIndex)
      gamma == binOrUndefined(magnitudeSpectrum, peakIndex + 1)
  IN  IF alpha = null \/ beta = null \/ gamma = null THEN NaN
      ELSE interpolated(alpha[1], beta[1], gamma[1], peakIndex, sampleRate, fftSize)

refineFrequencyEstimate(magnitudeSpectrum, peakIndex, sampleRate, fftSize) ==
  IF peakIndex <= 0 \/ peakIndex >= Len(magnitudeSpectrum) - 1
  THEN binFrequency(peakIndex, sampleRate, fftSize)
  ELSE interpolated(magnitudeSpectrum[peakIndex], magnitudeSpectrum[peakIndex + 1],
                    magnitudeSpectrum[peakIndex + 2], peakIndex, sampleRate, fftSize)

\* -------------------------------------------------------------- detectPitch
\* only the lower limit of the band is checked
inBand_lowerLimitOnly(refinedFrequency) ==
  IF refinedFrequency.kind = "finite" /\ refinedFrequency.value >= MIN_FREQUENCY
  THEN Some(refinedFrequency.value)
  ELSE null

\* lines 126-131: both comparisons are false of NaN, one of them of an infinity
inBand(refinedFrequency) ==
  IF /\ refinedFrequency.kind = "finite"
     /\ refinedFrequency.value >= MIN_FREQUENCY
     /\ refinedFrequency.value <= MAX_FREQUENCY
  THEN Some(refinedFrequency.value)
  ELSE null

\* detectPitch on audio data whose windowed, padded and transformed
\* magnitude spectrum is given
detectPitchOf(audioData, magnitudeSpectrum, sampleRate) ==
  IF calculateSignalStrength(audioData) < VOLUME_THRESHOLD THEN null
  ELSE LET paddedSize == nextPowerOf2(Len(audioData))
           peakFrequency == findPeakFrequency(magnitudeSpectrum, sampleRate, paddedSize)
       IN  IF peakFrequency = null THEN null
           ELSE inBand(refineFrequencyEstimate(magnitudeSpectrum, peakFrequency[1].index,
                                               sampleRate, paddedSize))

\* A frame is the audio data and the outcome of the spectral analysis of
\* that data (windowing, FFT, peak search, interpolation): refined is the
\* refined peak frequency, or null when findPeakFrequency finds no peak.
detectPitch_anyFrequency(frame) ==
  IF calculateSignalStrength(frame.audioData) < VOLUME_THRESHOLD THEN null
  ELSE frame.refined

detectPitch(frame) ==
  IF calculateSignalStrength(frame.audioData) < VOLUME_THRESHOLD THEN null
  ELSE IF frame.refined = null THEN null
  ELSE inBand(Finite(frame.refined[1]))

\* ------------------------------------------------------- handleTunerCommand
LowerToUpper ==
  [c \in {"a", "b", "c", "d", "e", "f", "g", "h", "i", "j", "k", "l", "m",
          "n", "o", "p", "q", "r", "s", "t", "u", "v", "w", "x", "y", "z"} |->
     CASE c = "a" -> "A" [] c = "b" -> "B" [] c = "c" -> "C" [] c = "d" -> "D"
       [] c = "e" -> "E" [] c = "f" -> "F" [] c = "g" -> "G" [] c = "h" -> "H"
       [] c = "i" -> "I" [] c = "j" -> "J" [] c = "k" -> "K" [] c = "l" -> "L"
       [] c = "m" -> "M" [] c = "n" -> "N" [] c = "o" -> "O" [] c = "p" -> "P"
       [] c = "q" -> "Q" [] c = "r" -> "R" [] c = "s" -> "S" [] c = "t" -> "T"
       [] c = "u" -> "U" [] c = "v" -> "V" [] c = "w" -> "W" [] c = "x" -> "X"
       [] c = "y" -> "Y" [] c = "z" -> "Z"]

toUpperCase(s) ==
  [k \in 1..Len(s) |-> IF s[k] \in DOMAIN LowerToUpper THEN LowerToUpper[s[k]] ELSE s[k]]

includes(s, part) ==
  \E i \in 1..(Len(s) - Len(part) + 1) : SubSeq(s, i, i + Len(part) - 1) = part

\* a literal of the pattern at position i, under the i flag
LiteralAt(s, i, lit) ==
  /\ i + Len(lit) - 1 <= Len(s)
  /\ toUpperCase(SubSeq(s, i, i + Len(lit) - 1)) = toUpperCase(lit)

IsSpace(c) == c \in {" ", "\t", "\n"}

\* \s+ is greedy: the first position at or after i that holds no white space
RECURSIVE SkipSpaces(_, _)
SkipSpaces(s, i) ==
  IF i <= Len(s) /\ IsSpace(s[i]) THEN SkipSpaces(s, i + 1) ELSE i

\* /tune\s+to\s+([A-G](?:#|b)?)/i anchored at position i: the capture group,
\* or null when the pattern does not match there
TuneToAt(s, i) ==
  LET a == i + 4
      b == SkipSpaces(s, a)
      c == b + 2
      d == SkipSpaces(s, c)
  IN  IF /\ LiteralAt(s, i, <<"t", "u", "n", "e">>)
         /\ b > a
         /\ LiteralAt(s, b, <<"t", "o">>)
         /\ d > c
         /\ d <= Len(s)
         /\ toUpperCase(<<s[d]>>)[1] \in {"A", "B", "C", "D", "E", "F", "G"}
      THEN IF d + 1 <= Len(s) /\ (s[d + 1] = "#" \/ toUpperCase(<<s[d + 1]>>) = <<"B">>)
           THEN Some(SubSeq(s, d, d + 1))
           ELSE Some(SubSeq(s, d, d))
      ELSE null

\* command.match(...): the capture of the leftmost match, or null
RECURSIVE TuneToFrom(_, _)
TuneToFrom(s, i) ==
  IF i > Len(s) THEN null
  ELSE IF TuneToAt(s, i) # null THEN TuneToAt(s, i)
  ELSE TuneToFrom(s, i + 1)

\* the capture group without the accidental
tuneToMatch_letterOnly(command) ==
  IF TuneToFrom(command, 1) = null THEN null
  ELSE Some(SubSeq(TuneToFrom(command, 1)[1], 1, 1))

tuneToMatch(command) == TuneToFrom(command, 1)

EXIT_TUNER == <<"e", "x", "i", "t", " ", "t", "u", "n", "e", "r">>
CHORD_MODE == <<"c", "h", "o", "r", "d", " ", "m", "o", "d", "e">>
TUNER_MODE == <<"t", "u", "n", "e", "r", " ", "m", "o", "d", "e">>
TUNE_GUITAR == <<"t", "u", "n", "e", " ", "g", "u", "i", "t", "a", "r">>

\* the exit rule tried before the tune-to rule
handleTunerCommand_exitFirst(command, state) ==
  IF includes(command, EXIT_TUNER) \/ includes(command, CHORD_MODE)
  THEN [state EXCEPT !.isActive = FALSE]
  ELSE IF tuneToMatch(command) # null
  THEN [state EXCEPT !.targetNote = toUpperCase(tuneToMatch(command)[1])]
  ELSE IF includes(command, TUNER_MODE) \/ includes(command, TUNE_GUITAR)
  THEN [state EXCEPT !.isActive = TRUE]
  ELSE state

\* leaving tuner mode also forgets what was detected
handleTunerCommand_exitResets(command, state) ==
  IF tuneToMatch(command) # null
  THEN [state EXCEPT !.targetNote = toUpperCase(tuneToMatch(command)[1])]
  ELSE IF includes(command, EXIT_TUNER) \/ includes(command, CHORD_MODE)
  THEN [state EXCEPT !.isActive = FALSE, !.detectedNote = null,
                     !.detectedFrequency = null, !.deviation = null,
                     !.recentDetections = <<>>, !.highestAmplitudeDetection = null]
  ELSE IF includes(command, TUNER_MODE) \/ includes(command, TUNE_GUITAR)
  THEN [state EXCEPT !.isActive = TRUE]
  ELSE state

handleTunerCommand(command, state) ==
  IF tuneToMatch(command) # null
  THEN [state EXCEPT !.targetNote = toUpperCase(tuneToMatch(command)[1])]
  ELSE IF includes(command, EXIT_TUNER) \/ includes(command, CHORD_MODE)
  THEN [state EXCEPT !.isActive = FALSE]
  ELSE IF includes(command, TUNER_MODE) \/ includes(command, TUNE_GUITAR)
  THEN [state EXCEPT !.isActive = TRUE]
  ELSE state

\* --------------------------------------------------- processTunerAudioChunk
isValidDetection(d) == d.note # null /\ d.frequency # null

\* the loop over validDetections: the first entry of strictly greater
\* signalStrength than all before it wins
RECURSIVE HighestFrom(_, _, _, _)
HighestFrom(detections, i, highestAmplitude, best) ==
  IF i > Len(detections) THEN best
  ELSE IF isValidDetection(detections[i]) /\ detections[i].signalStrength > highestAmplitude
       THEN HighestFrom(detections, i + 1, detections[i].signalStrength, Some(detections[i]))
       ELSE HighestFrom(detections, i + 1, highestAmplitude, best)

\* the newest valid detection instead of the strongest
highestAmplitudeOf_newest(detections) ==
  LET valid == {i \in 1..Len(detections) : isValidDetection(detections[i])}
  IN  IF valid = {} THEN null
      ELSE Some(detections[CHOOSE i \in valid : \A j \in valid : j <= i])

\* the loop with >= for >: the newest of the strongest valid detections
highestAmplitudeOf_newestOfTies(detections) ==
  LET valid == {i \in 1..Len(detections) : isValidDetection(detections[i])}
      strongest == {i \in valid : \A j \in valid :
                      detections[j].signalStrength <= detections[i].signalStrength}
  IN  IF valid = {} THEN null
      ELSE Some(detections[CHOOSE i \in strongest : \A j \in strongest : j <= i])

highestAmplitudeOf(detections) == HighestFrom(detections, 1, -1, null)

\* lines 533-535: the frequency of the frame, when it is loud enough
detectedFrequencyOf(frame) ==
  IF calculateSignalStrength(frame.audioData) >= VOLUME_THRESHOLD
  THEN detectPitch(frame)
  ELSE null

\* a detection whose deviation is left absent
resolvedDetection_noDeviation(detectedFrequency, signalStrength, state, currentTimestamp) ==
  IF detectedFrequency = null
  THEN [note |-> null, frequency |-> null, deviation |-> null,
        signalStrength |-> signalStrength, timestamp |-> currentTimestamp]
  ELSE LET smoothedFrequency ==
             smoothFrequency(detectedFrequency[1], state.detectedFrequency)
       IN  [note |-> Some(findClosestGuitarNote(smoothedFrequency)),
            frequency |-> Some(smoothedFrequency),
            deviation |-> null,
            signalStrength |-> signalStrength,
            timestamp |-> currentTimestamp]

\* a detection scored against the default target, whatever targetNote is
resolvedDetection_defaultTarget(detectedFrequency, signalStrength, state, currentTimestamp) ==
  IF detectedFrequency = null
  THEN [note |-> null, frequency |-> null, deviation |-> null,
        signalStrength |-> signalStrength, timestamp |-> currentTimestamp]
  ELSE LET smoothedFrequency ==
             smoothFrequency(detectedFrequency[1], state.detectedFrequency)
       IN  [note |-> Some(findClosestGuitarNote(smoothedFrequency)),
            frequency |-> Some(smoothedFrequency),
            deviation |-> Some(calculateCentsDeviation(
                               smoothedFrequency, getTargetFrequency(<<"E">>))),
            signalStrength |-> signalStrength,
            timestamp |-> currentTimestamp]

\* lines 523-530 and 537-564: the DetectionResult of a frame of the given
\* strength in which detectPitch found detectedFrequency (or null)
resolvedDetection(detectedFrequency, signalStrength, state, currentTimestamp) ==
  IF detectedFrequency = null
  THEN [note |-> null, frequency |-> null, deviation |-> null,
        signalStrength |-> signalStrength, timestamp |-> currentTimestamp]
  ELSE LET smoothedFrequency ==
             smoothFrequency(detectedFrequency[1], state.detectedFrequency)
           targetFrequency == getTargetFrequency(state.targetNote)
       IN  [note |-> Some(findClosestGuitarNote(smoothedFrequency)),
            frequency |-> Some(smoothedFrequency),
            deviation |-> Some(calculateCentsDeviation(smoothedFrequency, targetFrequency)),
            signalStrength |-> signalStrength,
            timestamp |-> currentTimestamp]

\* the spectral analysis runs on every frame, however quiet
currentDetectionOf_ungated(frame, state, currentTimestamp) ==
  resolvedDetection(
    IF /\ frame.refined # null
       /\ frame.refined[1] >= MIN_FREQUENCY
       /\ frame.refined[1] <= MAX_FREQUENCY
    THEN frame.refined ELSE null,
    calculateSignalStrength(frame.audioData), state, currentTimestamp)

\* the DetectionResult built for a frame (lines 516-570)
currentDetectionOf(frame, state, currentTimestamp) ==
  resolvedDetection(detectedFrequencyOf(frame),
                    calculateSignalStrength(frame.audioData), state, currentTimestamp)

\* a history that is never trimmed
appendDetection_noEviction(recentDetections, currentDetection) ==
  Append(recentDetections, currentDetection)

\* a history that drops its newest entry instead of its oldest
appendDetection_dropNewest(recentDetections, currentDetection) ==
  LET updatedDetections == Append(recentDetections, currentDetection)
  IN  IF Len(updatedDetections) > DETECTION_HISTORY_SIZE
      THEN SubSeq(updatedDetections, 1, DETECTION_HISTORY_SIZE)
      ELSE updatedDetections

\* lines 573-581: append, then drop the oldest entry beyond the capacity
appendDetection(recentDetections, currentDetection) ==
  LET updatedDetections == Append(recentDetections, currentDetection)
  IN  IF Len(updatedDetections) > DETECTION_HISTORY_SIZE
      THEN Tail(updatedDetections)
      ELSE updatedDetections

\* lines 599-617: the stored highestAmplitudeDetection, given the one found in
\* the history (null when the history holds no valid detection)
storedHighest_neverStale(highest, previous, currentTimestamp) ==
  IF highest = null THEN previous ELSE highest

storedHighest(highest, previous, currentTimestamp) ==
  IF highest = null THEN previous
  ELSE IF currentTimestamp - highest[1].timestamp > STALE_MS THEN null
  ELSE highest

\* signalStrength is stored only with a detection, like the detected fields
processActiveChunk_strengthWithDetection(frame, state, currentTimestamp) ==
  LET currentDetection == currentDetectionOf(frame, state, currentTimestamp)
      detected == currentDetection.frequency # null
      updatedDetections == appendDetection(state.recentDetections, currentDetection)
  IN  [isActive |-> state.isActive,
       targetNote |-> state.targetNote,
       detectedNote |-> IF detected THEN currentDetection.note ELSE state.detectedNote,
       detectedFrequency |-> IF detected THEN currentDetection.frequency
                             ELSE state.detectedFrequency,
       deviation |-> IF detected THEN currentDetection.deviation ELSE state.deviation,
       signalStrength |-> IF detected THEN Some(currentDetection.signalStrength)
                          ELSE state.signalStrength,
       recentDetections |-> updatedDetections,
       highestAmplitudeDetection |->
         storedHighest(highestAmplitudeOf(updatedDetections),
                       state.highestAmplitudeDetection, currentTimestamp)]

\* the body of processTunerAudioChunk after the isActive check
\* the state shows the detection of the current frame only
processActiveChunk_currentFrameOnly(frame, state, currentTimestamp) ==
  LET currentDetection == currentDetectionOf(frame, state, currentTimestamp)
      updatedDetections == appendDetection(state.recentDetections, currentDetection)
  IN  [isActive |-> state.isActive,
       targetNote |-> state.targetNote,
       detectedNote |-> currentDetection.note,
       detectedFrequency |-> currentDetection.frequency,
       deviation |-> currentDetection.deviation,
       signalStrength |-> Some(currentDetection.signalStrength),
       recentDetections |-> updatedDetections,
       highestAmplitudeDetection |->
         storedHighest(highestAmplitudeOf(updatedDetections),
                       state.highestAmplitudeDetection, currentTimestamp)]

processActiveChunk(frame, state, currentTimestamp) ==
  LET currentDetection == currentDetectionOf(frame, state, currentTimestamp)
      detected == currentDetection.frequency # null
      updatedDetections == appendDetection(state.recentDetections, currentDetection)
  IN  [isActive |-> state.isActive,
       targetNote |-> state.targetNote,
       detectedNote |-> IF detected THEN currentDetection.note ELSE state.detectedNote,
       detectedFrequency |-> IF detected THEN currentDetection.frequency
                             ELSE state.detectedFrequency,
       deviation |-> IF detected THEN currentDetection.deviation ELSE state.deviation,
       signalStrength |-> Some(currentDetection.signalStrength),
       recentDetections |-> updatedDetections,
       highestAmplitudeDetection |->
         storedHighest(highestAmplitudeOf(updatedDetections),
                       state.highestAmplitudeDetection, currentTimestamp)]

\* frames are processed whether or not the tuner is active
processTunerAudioChunk_ignoresActive(frame, state, currentTimestamp) ==
  processActiveChunk(frame, state, currentTimestamp)

processTunerAudioChunk(frame, state, currentTimestamp) ==
  IF ~state.isActive THEN state
  ELSE processActiveChunk(frame, state, currentTimestamp)

\* ------------------------------------------------------- formatTunerDisplay
\* The display string is the sequence of its pieces: the literal texts, and
\* the characters of the numbers and of the note name.
DigitChars == <<"0", "1", "2", "3", "4", "5", "6", "7", "8", "9">>

\* the decimal digits of a natural number
RECURSIVE Digits(_)
Digits(n) ==
  IF n < 10 THEN <<DigitChars[n + 1]>>
  ELSE Digits(n \div 10) \o <<DigitChars[(n % 10) + 1]>>

\* toFixed(1) of a number given in tenths
toFixed1(tenths) == Digits(tenths \div 10) \o <<".", DigitChars[(tenths % 10) + 1]>>

VOLUME_TOO_LOW ==
  <<"\n\nVolume too low. Play louder.\nThreshold: ">>
    \o toFixed1(VOLUME_THRESHOLD) \o <<"%">>
NO_PITCH_DETECTED == <<"\n\nNo pitch detected. Play a note.">>

\* lines 455-464: the rendering of a detection; a frequency in centi-hertz is
\* rounded to tenths of a hertz, a strength in thousandths is tenths of a percent
detectionDisplay(detection, currentTime) ==
  LET timeSinceDetection == (currentTime - detection.timestamp) \div 1000
  IN  (IF detection.frequency # null /\ detection.frequency[1] # 0
       THEN <<"Frequency: ">> \o toFixed1((detection.frequency[1] + 5) \div 10) \o <<" Hz">>
              \o <<"\nStrength: ">> \o toFixed1(detection.signalStrength) \o <<"%">>
       ELSE <<>>)
      \o (IF detection.note # null /\ detection.note[1] # <<>>
          THEN <<"\n\nClosest note: ">> \o detection.note[1]
          ELSE <<>>)
      \o <<"\n\nDetected ">> \o Digits(timeSinceDetection) \o <<" second">>
      \o (IF timeSinceDetection # 1 THEN <<"s">> ELSE <<>>) \o <<" ago">>

\* the detection is rendered whenever there is one, however quiet the last frame
formatTunerDisplay_detectionFirst(state, currentTime) ==
  IF state.highestAmplitudeDetection # null
  THEN detectionDisplay(state.highestAmplitudeDetection[1], currentTime)
  ELSE IF state.signalStrength # null /\ state.signalStrength[1] < VOLUME_THRESHOLD
  THEN VOLUME_TOO_LOW
  ELSE NO_PITCH_DETECTED

\* currentTime is the value Date.now() returns inside the function
formatTunerDisplay(state, currentTime) ==
  IF state.signalStrength # null /\ state.signalStrength[1] < VOLUME_THRESHOLD
  THEN VOLUME_TOO_LOW
  ELSE IF \/ state.highestAmplitudeDetection = null
          \/ state.highestAmplitudeDetection[1].note = null
          \/ state.highestAmplitudeDetection[1].note[1] = <<>>
  THEN NO_PITCH_DETECTED
  ELSE detectionDisplay(state.highestAmplitudeDetection[1], currentTime)

\* ----------------------------------------------------------- initTunerState
initTunerState ==
  [isActive |-> TRUE,
   targetNote |-> <<"E">>,
   detectedNote |-> null,
   detectedFrequency |-> null,
   deviation |-> null,
   signalStrength |-> null,
   recentDetections |-> <<>>,
   highestAmplitudeDetection |-> null]

\* ------------------------------------------------------------------ inputs
\* the time between a step and the audio frame that follows it
FrameGaps == {1000}

\* the ordinary frame: too quiet (strength 0.02), although its spectrum has a peak
QUIET == [audioData |-> <<2, -2>>, refined |-> Some(11000)]

Frames ==
  { QUIET,
    [audioData |-> <<0, 0>>, refined |-> null],
    [audioData |-> <<3, -3>>, refined |-> Some(8241)],
    [audioData |-> <<5, -5>>, refined |-> Some(40000)],
    [audioData |-> <<200, -200>>, refined |-> Some(11000)],
    [audioData |-> <<150, -150>>, refined |-> Some(8400)] }

Pauses == {29000, 30001}

TUNE_TO_A == <<"t", "u", "n", "e", " ", "t", "o", " ", "a">>
TUNE_TO_D_CHORD_MODE == <<"t", "u", "n", "e", " ", "t", "o", " ", "d", " ">> \o CHORD_MODE
EXIT_TUNER_MODE == EXIT_TUNER \o <<" ", "m", "o", "d", "e">>
HELLO == <<"h", "e", "l", "l", "o">>

Commands == {TUNE_TO_A, TUNE_TO_D_CHORD_MODE, EXIT_TUNER_MODE, TUNER_MODE, HELLO}

\* ----------------------------------------------------------------- actions
Init ==
  /\ tunerState = initTunerState
  /\ now = 0
  /\ lastOp = [op |-> "init"]
  /\ log = <<>>
  /\ nFrames = 0
  /\ nEvents = 0
  /\ call = [fn |-> "none"]
  /\ result = null
  /\ heap = <<>>
  /\ app = <<>>

\* onAudioChunk: a frame is delivered, gap milliseconds after the previous step
AudioChunk(frame, gap) ==
  /\ nFrames < MaxFrames
  /\ frame # QUIET => nEvents < MaxEvents
  /\ now' = now + gap
  /\ tunerState' = processTunerAudioChunk(frame, tunerState, now')
  /\ lastOp' = [op |-> "frame", frame |-> frame]
  /\ log' = IF tunerState.isActive
            THEN Append(log, [signalStrength |-> calculateSignalStrength(frame.audioData),
                              timestamp |-> now'])
            ELSE log
  /\ nFrames' = nFrames + 1
  /\ nEvents' = IF frame # QUIET THEN nEvents + 1 ELSE nEvents
  /\ UNCHANGED <<call, result, heap, app>>

\* no audio is delivered for a while
Pause(ms) ==
  /\ nEvents < MaxEvents
  /\ now' = now + ms
  /\ nEvents' = nEvents + 1
  /\ lastOp' = [op |-> "pause"]
  /\ UNCHANGED <<tunerState, log, nFrames, call, result, heap, app>>

Command(command) ==
  /\ nEvents < MaxEvents
  /\ tunerState' = handleTunerCommand(command, tunerState)
  /\ lastOp' = [op |-> "command", command |-> command]
  /\ nEvents' = nEvents + 1
  /\ UNCHANGED <<now, log, nFrames, call, result, heap, app>>

Next ==
  \/ \E frame \in Frames, gap \in FrameGaps : AudioChunk(frame, gap)
  \/ \E ms \in Pauses : Pause(ms)
  \/ \E command \in Commands : Command(command)

Spec == Init /\ [][Next]_vars

\* ------------------------------------------------- calls of the functions
\* The functions of tuner.ts taken one call at a time: a call is drawn with
\* its arguments, and the step of the function sets what it returns.

\* the note prefixes passed to getTargetFrequency
PrefixChars == {"A", "B", "C", "D", "E", "F", "G", "H", "#", "0", "1", "2", "4", "8"}
Prefixes == UNION {[1..k -> PrefixChars] : k \in 0..MaxPrefixLen}
TargetCall == \E note \in Prefixes : call = [fn |-> "getTargetFrequency", note |-> note]

\* the frequencies passed to findClosestGuitarNote: the open strings, and the
\* frequencies about half way between an open string and each of its neighbours
ClosestFrequencies ==
  {8241, 11000, 14683, 19600, 24694, 32963}
    \cup (8003..8010) \cup (8479..8490) \cup (10684..10690) \cup (11319..11328)
    \cup (25409..25412) \cup (33936..33941) \cup {9000, 12000, 30000}
ClosestCall ==
  \E f \in ClosestFrequencies : call = [fn |-> "findClosestGuitarNote", frequency |-> f]

\* magnitude spectra: bins of 0, 0.005 (under the peak floor), 0.02, 0.03, 0.04
MagnitudeValues == {0, 5, 20, 30, 40}
Spectra(n) == [1..n -> MagnitudeValues]
SampleRates == {400, 800, 16000}
RefineCall ==
  \E n \in 1..MaxSpectrumLen : \E m \in Spectra(n) :
    \E k \in 0..(MaxSpectrumLen - 1) : \E sr \in SampleRates :
      call = [fn |-> "refineFrequencyEstimate", magnitudeSpectrum |-> m, peakIndex |-> k,
              sampleRate |-> sr, fftSize |-> 2 * n]

\* audio data of n samples of alternating sign: quiet (0.002) or loud (0.2)
Tone(n, amplitude) == [i \in 1..n |-> IF i % 2 = 1 THEN amplitude ELSE -amplitude]
AudioData ==
  {Tone(n, a) : n \in {n \in 1..(2 * MaxSpectrumLen) : nextPowerOf2(n) <= 2 * MaxSpectrumLen},
                a \in {2, 200}}
DetectCall ==
  \E d \in AudioData : \E m \in Spectra(nextPowerOf2(Len(d)) \div 2) :
    \E sr \in SampleRates :
      call = [fn |-> "detectPitch", audioData |-> d, magnitudeSpectrum |-> m,
              sampleRate |-> sr]

\* the audio data passed to applyHammingWindow
WindowSamples == {-200, 0, 200}
WindowCall ==
  \E n \in 1..MaxWindowLen : \E d \in [1..n -> WindowSamples] :
    call = [fn |-> "applyHammingWindow", audioData |-> d]

\* processTunerAudioChunk on a state whose detectedFrequency is absent, zero
\* or a frequency of the band; 82.40 Hz after 80.00 Hz is a change of exactly
\* 3 percent
PreviousFrequencies == {null, Some(0), Some(8000), Some(8241), Some(10800)}
ChunkFrames == Frames \cup {[audioData |-> <<200, -200>>, refined |-> Some(8240)]}
ChunkCall ==
  \E frame \in ChunkFrames : \E previous \in PreviousFrequencies : \E gap \in FrameGaps :
    call = [fn |-> "processTunerAudioChunk", frame |-> frame,
            tunerState |-> [initTunerState EXCEPT !.detectedFrequency = previous],
            currentTimestamp |-> gap]

\* processTunerAudioChunk on a state with a history: a loud detection at
\* 1000 ms and a faint one at 2000 ms, then QuietRun quiet frames a second
\* apart; the call comes when the loud detection is 29 s old or more
RECURSIVE afterQuietFrames(_, _, _)
afterQuietFrames(state, n, lastTimestamp) ==
  IF n = 0 THEN state
  ELSE afterQuietFrames(processTunerAudioChunk(QUIET, state, lastTimestamp + 1000),
                        n - 1, lastTimestamp + 1000)

loudThenFaint ==
  LET loud == [audioData |-> <<200, -200>>, refined |-> Some(11000)]
      faint == [audioData |-> <<3, -3>>, refined |-> Some(8241)]
  IN  processTunerAudioChunk(faint, processTunerAudioChunk(loud, initTunerState, 1000), 2000)

AgedChunkCall ==
  \E frame \in ChunkFrames : \E n \in {0, DETECTION_HISTORY_SIZE - 2} :
  \E currentTimestamp \in {30000, 31000, 31001, 32001} :
    call = [fn |-> "processTunerAudioChunk", frame |-> frame,
            tunerState |-> afterQuietFrames(loudThenFaint, n, 2000),
            currentTimestamp |-> currentTimestamp]

\* processTunerAudioChunk on the state a tune-to command leaves; command is
\* the command that was handled
TuneCommands == {TUNE_TO_A, <<"t", "u", "n", "e", " ", "t", "o", " ", "a", "b">>,
                 <<"t", "u", "n", "e", " ", "t", "o", " ", "B", "b">>}
TunedChunkCall ==
  \E frame \in ChunkFrames : \E command \in TuneCommands :
    call = [fn |-> "processTunerAudioChunk", frame |-> frame,
            tunerState |-> handleTunerCommand(command, initTunerState),
            currentTimestamp |-> 1000, command |-> command]

CallInit ==
  /\ \/ TargetCall
     \/ ClosestCall
     \/ RefineCall
     \/ DetectCall
     \/ WindowCall
     \/ ChunkCall
     \/ AgedChunkCall
     \/ TunedChunkCall
  /\ result = null
  /\ heap = <<>>
  /\ app = <<>>
  /\ tunerState = initTunerState
  /\ now = 0
  /\ lastOp = [op |-> "init"]
  /\ log = <<>>
  /\ nFrames = 0
  /\ nEvents = 0

GetTargetFrequency ==
  /\ call.fn = "getTargetFrequency"
  /\ result = null
  /\ result' = Some(getTargetFrequency(call.note))
  /\ UNCHANGED <<call, tunerState, now, lastOp, log, nFrames, nEvents, heap, app>>

FindClosestGuitarNote ==
  /\ call.fn = "findClosestGuitarNote"
  /\ result = null
  /\ result' = Some(findClosestGuitarNote(call.frequency))
  /\ UNCHANGED <<call, tunerState, now, lastOp, log, nFrames, nEvents, heap, app>>

RefineFrequencyEstimate ==
  /\ call.fn = "refineFrequencyEstimate"
  /\ result = null
  /\ result' = Some(refineFrequencyEstimate(call.magnitudeSpectrum, call.peakIndex,
                                            call.sampleRate, call.fftSize))
  /\ UNCHANGED <<call, tunerState, now, lastOp, log, nFrames, nEvents, heap, app>>

DetectPitch ==
  /\ call.fn = "detectPitch"
  /\ result = null
  /\ result' = Some(detectPitchOf(call.audioData, call.magnitudeSpectrum, call.sampleRate))
  /\ UNCHANGED <<call, tunerState, now, lastOp, log, nFrames, nEvents, heap, app>>

ProcessTunerAudioChunk ==
  /\ call.fn = "processTunerAudioChunk"
  /\ result = null
  /\ result' = Some(processTunerAudioChunk(call.frame, call.tunerState, call.currentTimestamp))
  /\ UNCHANGED <<call, tunerState, now, lastOp, log, nFrames, nEvents, heap, app>>

ApplyHammingWindow ==
  /\ call.fn = "applyHammingWindow"
  /\ result = null
  /\ result' = Some(applyHammingWindow(call.audioData))
  /\ UNCHANGED <<call, tunerState, now, lastOp, log, nFrames, nEvents, heap, app>>

CallNext ==
  \/ ApplyHammingWindow
  \/ ProcessTunerAudioChunk
  \/ GetTargetFrequency
  \/ FindClosestGuitarNote
  \/ RefineFrequencyEstimate
  \/ DetectPitch

CallSpec == CallInit /\ [][CallNext]_vars

\* ------------------------------------------------------ objects and references
\* The engine's functions on the JavaScript heap.  The heap holds the
\* TunerState objects, the recentDetections arrays and the DetectionResult
\* objects allocated so far, each in allocation order; a reference is the
\* position of its object.  A TunerState object holds a reference to its
\* array and (or null) to its highestAmplitudeDetection; an array holds
\* references to its entries.  heap.tunerState is the driver's variable.

\* the TunerState value a reference stands for, as the value-level model has it
derefState(h, s) ==
  LET object == h.states[s]
      entries == h.arrays[object.recentDetections]
  IN  [object EXCEPT
         !.recentDetections = [i \in 1..Len(entries) |-> h.detections[entries[i]]],
         !.highestAmplitudeDetection =
            IF object.highestAmplitudeDetection = null THEN null
            ELSE Some(h.detections[object.highestAmplitudeDetection[1]])]

\* updatedState is the input object itself, not a copy of it
copyState_alias(h, s) == [heap |-> h, ref |-> s]

\* const updatedState = { ...tunerState }: a new object with the same fields
copyState(h, s) ==
  [heap |-> [h EXCEPT !.states = Append(@, h.states[s])], ref |-> Len(h.states) + 1]

\* handleTunerCommand: the fields are written to the copy
heapHandleTunerCommand(h, s, command) ==
  LET copy == copyState(h, s)
      updatedState == copy.ref
      written == handleTunerCommand(command, h.states[s])
  IN  [heap |-> [copy.heap EXCEPT !.states[updatedState].targetNote = written.targetNote,
                                  !.states[updatedState].isActive = written.isActive],
       ref |-> updatedState]

\* the loop of lines 583-597 over the entries of an array: a reference to the
\* first valid entry of strictly greatest signalStrength, or null
highestRef(detections, entries) ==
  LET valid == {i \in 1..Len(entries) : isValidDetection(detections[entries[i]])}
  IN  IF valid = {} THEN null
      ELSE Some(entries[CHOOSE i \in valid :
             /\ \A j \in valid :
                  detections[entries[j]].signalStrength <= detections[entries[i]].signalStrength
             /\ \A j \in valid :
                  j < i => detections[entries[j]].signalStrength
                             < detections[entries[i]].signalStrength])

\* processTunerAudioChunk: an inactive state is returned as it is; otherwise
\* the fields are written to the copy, currentDetection is a new object and
\* updatedDetections a new array, shifted when it exceeds the capacity
heapProcessTunerAudioChunk(h, s, frame, currentTimestamp) ==
  IF ~h.states[s].isActive THEN [heap |-> h, ref |-> s]
  ELSE
    LET copy == copyState(h, s)
        updatedState == copy.ref
        currentDetection == Len(h.detections) + 1
        detection == currentDetectionOf(frame, derefState(h, s), currentTimestamp)
        detected == detection.frequency # null
        detections == Append(h.detections, detection)
        spread == Append(h.arrays[h.states[s].recentDetections], currentDetection)
        updatedDetections ==
          IF Len(spread) > DETECTION_HISTORY_SIZE THEN Tail(spread) ELSE spread
        highestAmplitudeDetection == highestRef(detections, updatedDetections)
        fields == copy.heap.states[updatedState]
    IN  [heap |->
           [copy.heap EXCEPT
              !.detections = detections,
              !.arrays = Append(@, updatedDetections),
              !.states[updatedState] =
                 [fields EXCEPT
                    !.signalStrength = Some(detection.signalStrength),
                    !.detectedNote = IF detected THEN detection.note ELSE @,
                    !.detectedFrequency = IF detected THEN detection.frequency ELSE @,
                    !.deviation = IF detected THEN detection.deviation ELSE @,
                    !.recentDetections = Len(h.arrays) + 1,
                    !.highestAmplitudeDetection =
                       IF highestAmplitudeDetection = null THEN @
                       ELSE IF currentTimestamp
                                 - detections[highestAmplitudeDetection[1]].timestamp > STALE_MS
                            THEN null
                            ELSE highestAmplitudeDetection]],
         ref |-> updatedState]

\* the frames and commands of the driver in this specification
HeapFrames == {QUIET, [audioData |-> <<200, -200>>, refined |-> Some(11000)]}
HeapCommands == {TUNE_TO_A, EXIT_TUNER_MODE}

\* the driver's tunerState refers to the object made by initTunerState
HeapInit ==
  /\ heap = [states |-> <<[initTunerState EXCEPT !.recentDetections = 1]>>,
             arrays |-> << <<>> >>,
             detections |-> <<>>,
             tunerState |-> 1]
  /\ tunerState = initTunerState
  /\ now = 0
  /\ lastOp = [op |-> "init"]
  /\ log = <<>>
  /\ nFrames = 0
  /\ nEvents = 0
  /\ call = [fn |-> "none"]
  /\ result = null
  /\ app = <<>>

\* tunerState = processTunerAudioChunk(audioData, tunerState, 16000)
HeapAudioChunk(frame, gap) ==
  /\ nFrames < MaxHeapFrames
  /\ frame # QUIET => nEvents < MaxHeapEvents
  /\ now' = now + gap
  /\ LET returned == heapProcessTunerAudioChunk(heap, heap.tunerState, frame, now')
     IN  heap' = [returned.heap EXCEPT !.tunerState = returned.ref]
  /\ tunerState' = processTunerAudioChunk(frame, tunerState, now')
  /\ lastOp' = [op |-> "frame", frame |-> frame]
  /\ nFrames' = nFrames + 1
  /\ nEvents' = IF frame # QUIET THEN nEvents + 1 ELSE nEvents
  /\ UNCHANGED <<log, call, result, app>>

\* tunerState = handleTunerCommand(command, tunerState)
HeapCommand(command) ==
  /\ nEvents < MaxHeapEvents
  /\ LET returned == heapHandleTunerCommand(heap, heap.tunerState, command)
     IN  heap' = [returned.heap EXCEPT !.tunerState = returned.ref]
  /\ tunerState' = handleTunerCommand(command, tunerState)
  /\ lastOp' = [op |-> "command", command |-> command]
  /\ nEvents' = nEvents + 1
  /\ UNCHANGED <<now, log, nFrames, call, result, app>>

HeapNext ==
  \/ \E frame \in HeapFrames, gap \in FrameGaps : HeapAudioChunk(frame, gap)
  \/ \E command \in HeapCommands : HeapCommand(command)

HeapSpec == HeapInit /\ [][HeapNext]_vars

\* ------------------------------------------------- sheet-music app (index.ts)
\* The app object of index.ts with what the runtime holds for it: an interval
\* field is "null", "running" (a handle to a running interval) or "cleared" (a
\* handle kept after clearInterval); leaked names the running intervals no
\* field refers to; timeouts counts the pending brief-pause timeouts; display
\* is the last layout sent to the glasses ("sheet" is the bitmap held in
\* imageBase64, the only bitmap showBitmapView is given besides the empty one); thrown names the call whose
\* exception ended the last handler or was caught in it ("loadAndDisplaySheet",
\* whose catch block is the last thing its callers run), "none" otherwise.  Song indexes count from 0, as in the
\* code.  One session is modelled, and every bitmap file of a song exists up
\* to SheetsPerSong.
MaxImageIndex == 2
MaxTimeouts == 1
SheetsPerSong == 2

\* lines 55-61
songs ==
  << [name |-> "furelise", intervalMs |-> 3000],
     [name |-> "sparkle", intervalMs |-> 3500],
     [name |-> "megalovania", intervalMs |-> 3000],
     [name |-> "clairedelune", intervalMs |-> 3000],
     [name |-> "gymnopedie", intervalMs |-> 3000] >>

\* the remainder operator % of JavaScript: the sign is the dividend's
jsRem(a, n) == IF a >= 0 THEN a % n ELSE -((-a) % n)

\* songs[index] is an element of the array and not undefined
songDefined(index) == index \in 0 .. (Len(songs) - 1)

\* the constructor, lines 43-67
newApp ==
  [ imageBase64 |-> null,
    image_index |-> 0,
    showingSheet |-> FALSE,
    sheetInterval |-> "null",
    bitmapInterval |-> "null",
    currentState |-> "IDLE",
    selectedSongIndex |-> 0,
    isPaused |-> FALSE,
    appMode |-> "MANUAL",
    leaked |-> {},
    timeouts |-> 0,
    startupTimeout |-> FALSE,
    session |-> FALSE,
    display |-> "none",
    thrown |-> "none" ]

\* this.<field> = setInterval(...): an interval still running under the old
\* handle keeps running with nothing referring to it
setInterval(a, field) ==
  [a EXCEPT !.leaked = IF a[field] = "running" THEN @ \cup {field} ELSE @,
            ![field] = "running"]

\* only the keep-alive interval is cleared
clearIntervals_bitmapOnly(a) ==
  [a EXCEPT !.bitmapInterval = "null"]

\* lines 75-86: each handle that is set is cleared and then nulled
clearIntervals(a) ==
  [a EXCEPT !.bitmapInterval = "null", !.sheetInterval = "null"]

clearBitmap(a) ==
  clearIntervals([a EXCEPT !.display = "empty"])

showInstructions(a) ==
  [a EXCEPT !.display = "instructions"]

\* reading displayName of an undefined song throws before the text is shown
showCatalog(a) ==
  LET viewed == [a EXCEPT !.currentState = "CATALOG_VIEW"]
      lines == [i \in 1 .. 4 |-> jsRem(viewed.selectedSongIndex + (i - 1), Len(songs))]
  IN  IF \A i \in 1 .. 4 : songDefined(lines[i])
      THEN [viewed EXCEPT !.display = "catalog"]
      ELSE [viewed EXCEPT !.thrown = "showCatalog"]

nextCatalogItem(a) ==
  IF a.currentState = "CATALOG_VIEW"
  THEN showCatalog([a EXCEPT !.selectedSongIndex = jsRem(@ + 1, Len(songs))])
  ELSE a

previousCatalogItem(a) ==
  IF a.currentState = "CATALOG_VIEW"
  THEN showCatalog([a EXCEPT !.selectedSongIndex = jsRem(@ - 1, Len(songs))])
  ELSE a

\* readFileSync finds <song>/<image_index>.bmp
imageExists(a) ==
  /\ songDefined(a.selectedSongIndex)
  /\ a.image_index \in 0 .. (SheetsPerSong - 1)

\* the bitmap read from <song>/<image_index>.bmp, named by its measure
currentImage(a) == Some(a.image_index)

\* the catch block leaves the intervals running
loadAndDisplaySheet_keepsIntervals(a) ==
  IF imageExists(a)
  THEN LET shown == [a EXCEPT !.imageBase64 = currentImage(a),
                              !.display = "sheet"]
           stopped == IF shown.bitmapInterval # "null"
                      THEN [shown EXCEPT !.bitmapInterval = "cleared"]
                      ELSE shown
       IN  setInterval(stopped, "bitmapInterval")
  ELSE showInstructions(
         [a EXCEPT !.currentState = "IDLE", !.showingSheet = FALSE,
                   !.thrown = "loadAndDisplaySheet"])

loadAndDisplaySheet(a) ==
  IF imageExists(a)
  THEN LET shown == [a EXCEPT !.imageBase64 = currentImage(a),
                              !.display = "sheet"]
           stopped == IF shown.bitmapInterval # "null"
                      THEN [shown EXCEPT !.bitmapInterval = "cleared"]
                      ELSE shown
       IN  setInterval(stopped, "bitmapInterval")
  ELSE showInstructions(clearIntervals(
         [a EXCEPT !.currentState = "IDLE", !.showingSheet = FALSE,
                   !.thrown = "loadAndDisplaySheet"]))

selectSong(a) ==
  IF a.currentState = "CATALOG_VIEW"
  THEN loadAndDisplaySheet([a EXCEPT !.currentState = "PLAYING_SHEET",
                                     !.showingSheet = TRUE,
                                     !.isPaused = FALSE,
                                     !.image_index = 0])
  ELSE a

setBitmap(a) ==
  IF imageExists(a)
  THEN [a EXCEPT !.imageBase64 = currentImage(a),
                 !.display = "sheet"]
  ELSE IF a.image_index > 0
       THEN [a EXCEPT !.image_index = @ - 1]
       ELSE a

\* reading intervalMs of an undefined song throws after the intervals were
\* cleared and before the new one is set
startSheetInterval_ignoresPause(a) ==
  LET cleared == clearIntervals(a)
  IN  IF songDefined(cleared.selectedSongIndex)
      THEN setInterval(cleared, "sheetInterval")
      ELSE [cleared EXCEPT !.thrown = "startSheetInterval"]

startSheetInterval(a) ==
  IF a.isPaused
  THEN a
  ELSE LET cleared == clearIntervals(a)
       IN  IF songDefined(cleared.selectedSongIndex)
           THEN setInterval(cleared, "sheetInterval")
           ELSE [cleared EXCEPT !.thrown = "startSheetInterval"]

pauseSheet(a) ==
  IF a.currentState = "PLAYING_SHEET" /\ ~a.isPaused
  THEN [a EXCEPT !.isPaused = TRUE, !.sheetInterval = "null"]
  ELSE a

resumeSheet(a) ==
  IF a.currentState = "PLAYING_SHEET" /\ a.isPaused
  THEN startSheetInterval([a EXCEPT !.isPaused = FALSE])
  ELSE a

exitToMain_keepsIntervals(a) ==
  showInstructions([a EXCEPT !.currentState = "IDLE", !.showingSheet = FALSE,
                             !.display = "empty"])

exitToMain(a) ==
  showInstructions(clearBitmap(
    [a EXCEPT !.currentState = "IDLE", !.showingSheet = FALSE]))

\* the callback of the sheet-advance interval, lines 199-204
sheetCallback(a) ==
  IF ~a.isPaused /\ a.showingSheet
  THEN loadAndDisplaySheet([a EXCEPT !.image_index = @ + 1])
  ELSE a

\* the callback of the keep-alive interval, lines 158-160
bitmapCallback(a) ==
  [a EXCEPT !.display = "sheet"]

\* the callback of the brief-pause timeout, lines 291-295
pauseCallback(a) ==
  IF a.appMode = "AUTO" /\ a.showingSheet /\ ~a.isPaused
  THEN startSheetInterval(a)
  ELSE a

\* process.stdin.on('data', ...), lines 237-304; key is one character
onKey(key, a) ==
  IF ~a.showingSheet THEN a
  ELSE IF key = ";"
  THEN IF a.appMode = "AUTO"
       THEN clearIntervals([a EXCEPT !.appMode = "MANUAL"])
       ELSE startSheetInterval([a EXCEPT !.appMode = "AUTO"])
  ELSE IF key = "]" \/ key = "["
  THEN IF a.appMode = "MANUAL"
       THEN IF key = "]"
            THEN setBitmap([a EXCEPT !.image_index = @ + 1])
            ELSE IF a.image_index > 0
                 THEN setBitmap([a EXCEPT !.image_index = @ - 1])
                 ELSE a
       ELSE IF key = "]"
            THEN [a EXCEPT !.image_index = @ + 1]
            ELSE IF a.sheetInterval # "null"
                 THEN LET stopped == [a EXCEPT !.sheetInterval = "cleared"]
                      IN  IF songDefined(a.selectedSongIndex)
                          THEN [stopped EXCEPT !.timeouts = @ + 1]
                          ELSE [stopped EXCEPT !.thrown = "getCurrentSong"]
                 ELSE a
  ELSE a

\* the phrases the transcription handler looks for, lines 334-372
Phrase ==
  [ showHelp |-> <<"s", "h", "o", "w", " ", "h", "e", "l", "p">>,
    clearBitmap |-> <<"c", "l", "e", "a", "r", " ", "b", "i", "t", "m", "a", "p">>,
    showCatalog |-> <<"s", "h", "o", "w", " ", "c", "a", "t", "a", "l", "o", "g">>,
    next |-> <<"n", "e", "x", "t">>,
    previous |-> <<"p", "r", "e", "v", "i", "o", "u", "s">>,
    select |-> <<"s", "e", "l", "e", "c", "t">>,
    pause |-> <<"p", "a", "u", "s", "e">>,
    stop |-> <<"s", "t", "o", "p">>,
    start |-> <<"s", "t", "a", "r", "t">>,
    restart |-> <<"r", "e", "s", "t", "a", "r", "t">>,
    reset |-> <<"r", "e", "s", "e", "t">>,
    resume |-> <<"r", "e", "s", "u", "m", "e">>,
    exit |-> <<"e", "x", "i", "t">> ]

\* the branch of the else-if chain a command takes, lines 338-375
matchedBranch(command) ==
  IF includes(command, Phrase.clearBitmap) THEN "clearBitmap"
  ELSE IF includes(command, Phrase.showCatalog) THEN "showCatalog"
  ELSE IF includes(command, Phrase.next) THEN "next"
  ELSE IF includes(command, Phrase.previous) THEN "previous"
  ELSE IF includes(command, Phrase.select) THEN "select"
  ELSE IF includes(command, Phrase.pause) \/ includes(command, Phrase.stop) THEN "pause"
  ELSE IF includes(command, Phrase.start) /\ ~includes(command, Phrase.restart)
  THEN "start"
  ELSE IF includes(command, Phrase.reset) THEN "reset"
  ELSE IF includes(command, Phrase.resume) THEN "resume"
  ELSE IF includes(command, Phrase.exit) THEN "exit"
  ELSE "none"

VoiceCommands ==
  { Phrase.showHelp, Phrase.clearBitmap, Phrase.showCatalog, Phrase.next,
    Phrase.previous, Phrase.select, Phrase.pause, Phrase.stop, Phrase.start,
    Phrase.restart, Phrase.reset, Phrase.resume, Phrase.exit }

\* the tests of the handler, evaluated once for each command of the model
testsOf ==
  [command \in VoiceCommands |->
     [showHelp |-> includes(command, Phrase.showHelp),
      branch |-> matchedBranch(command)]]

\* the bodies of the branches, lines 338-375
commandChain(command, a) ==
  LET branch == testsOf[command].branch
  IN  IF branch = "clearBitmap" THEN clearBitmap(a)
      ELSE IF branch = "showCatalog" THEN showCatalog(a)
      ELSE IF branch = "next" THEN nextCatalogItem(a)
      ELSE IF branch = "previous" THEN previousCatalogItem(a)
      ELSE IF branch = "select" THEN selectSong(a)
      ELSE IF branch = "pause" THEN pauseSheet(a)
      ELSE IF branch = "start" THEN startSheetInterval([a EXCEPT !.isPaused = FALSE])
      ELSE IF branch = "reset"
      THEN loadAndDisplaySheet([a EXCEPT !.isPaused = TRUE, !.image_index = 0])
      ELSE IF branch = "resume" THEN resumeSheet(a)
      ELSE IF branch = "exit" THEN exitToMain([a EXCEPT !.isPaused = TRUE])
      ELSE a

\* session.events.onTranscription, lines 323-383; command is lower case and
\* trimmed; a final transcription is skipped
onTranscription(command, isFinal, a) ==
  IF isFinal
  THEN a
  ELSE commandChain(command,
         IF testsOf[command].showHelp THEN showInstructions(a) ELSE a)

\* ------------------------------------------------------- SheetSpec actions
\* data of a transcription event: every command as an interim result, one as
\* a final result
Transcripts ==
  {[text |-> command, isFinal |-> FALSE] : command \in VoiceCommands}
    \cup {[text |-> Phrase.exit, isFinal |-> TRUE]}

Keys == {";", "[", "]", "x"}

\* whether the last voice command the transcription handler processed was
\* "exit"
afterExit == IF "afterExit" \in DOMAIN lastOp THEN lastOp.afterExit ELSE FALSE

\* "yes": a "pause" or "stop" command was processed in PLAYING_SHEET and no
\* "start", "resume" or "select" command since; "selected": the same, but for
\* a "select" command since; "no" otherwise
afterPause == IF "afterPause" \in DOMAIN lastOp THEN lastOp.afterPause ELSE "no"

afterPauseWith(command) ==
  IF command \in {Phrase.pause, Phrase.stop} /\ app.currentState = "PLAYING_SHEET"
  THEN "yes"
  ELSE IF command \in {Phrase.start, Phrase.resume} THEN "no"
  ELSE IF command = Phrase.select /\ afterPause # "no" THEN "selected"
  ELSE afterPause

SheetInit ==
  /\ app = newApp
  /\ lastOp = [op |-> "init"]
  /\ tunerState = initTunerState
  /\ now = 0
  /\ log = <<>>
  /\ nFrames = 0
  /\ nEvents = 0
  /\ call = [fn |-> "none"]
  /\ result = null
  /\ heap = <<>>

\* onSession, lines 310-319: the input listener, the empty bitmap and the
\* timeout that shows the instructions
OnSession ==
  /\ ~app.session
  /\ app' = [clearBitmap(app) EXCEPT !.session = TRUE, !.startupTimeout = TRUE]
  /\ lastOp' = [op |-> "session", afterExit |-> afterExit, afterPause |-> afterPause]
  /\ UNCHANGED <<tunerState, now, log, nFrames, nEvents, call, result, heap>>

StartupTimeout ==
  /\ app.startupTimeout
  /\ app' = [showInstructions(app) EXCEPT !.startupTimeout = FALSE, !.thrown = "none"]
  /\ lastOp' = [op |-> "startupTimeout", afterExit |-> afterExit, afterPause |-> afterPause]
  /\ UNCHANGED <<tunerState, now, log, nFrames, nEvents, call, result, heap>>

Transcription(data) ==
  /\ app.session
  /\ app' = onTranscription(data.text, data.isFinal, [app EXCEPT !.thrown = "none"])
  /\ lastOp' = [op |-> "transcription",
                afterExit |-> IF data.isFinal THEN afterExit
                              ELSE data.text = Phrase.exit,
                afterPause |-> IF data.isFinal THEN afterPause
                               ELSE afterPauseWith(data.text)]
  /\ UNCHANGED <<tunerState, now, log, nFrames, nEvents, call, result, heap>>

KeyPress(key) ==
  /\ app.session
  /\ key = "]" /\ app.showingSheet /\ app.appMode = "AUTO"
       => app.image_index < MaxImageIndex
  /\ key = "[" /\ app.showingSheet /\ app.appMode = "AUTO"
       => app.timeouts < MaxTimeouts
  /\ app' = onKey(key, [app EXCEPT !.thrown = "none"])
  /\ lastOp' = [op |-> "key", afterExit |-> afterExit, afterPause |-> afterPause]
  /\ UNCHANGED <<tunerState, now, log, nFrames, nEvents, call, result, heap>>

\* a running sheet-advance interval fires
SheetTimer ==
  /\ app.sheetInterval = "running" \/ "sheetInterval" \in app.leaked
  /\ app' = sheetCallback([app EXCEPT !.thrown = "none"])
  /\ lastOp' = [op |-> "sheetTimer", afterExit |-> afterExit, afterPause |-> afterPause]
  /\ UNCHANGED <<tunerState, now, log, nFrames, nEvents, call, result, heap>>

\* a running keep-alive interval fires
BitmapTimer ==
  /\ app.bitmapInterval = "running" \/ "bitmapInterval" \in app.leaked
  /\ app' = bitmapCallback([app EXCEPT !.thrown = "none"])
  /\ lastOp' = [op |-> "bitmapTimer", afterExit |-> afterExit, afterPause |-> afterPause]
  /\ UNCHANGED <<tunerState, now, log, nFrames, nEvents, call, result, heap>>

\* a pending brief-pause timeout fires
PauseTimeout ==
  /\ app.timeouts > 0
  /\ app' = pauseCallback([app EXCEPT !.timeouts = @ - 1, !.thrown = "none"])
  /\ lastOp' = [op |-> "pauseTimeout", afterExit |-> afterExit, afterPause |-> afterPause]
  /\ UNCHANGED <<tunerState, now, log, nFrames, nEvents, call, result, heap>>

SheetNext ==
  \/ OnSession
  \/ StartupTimeout
  \/ \E data \in Transcripts : Transcription(data)
  \/ \E key \in Keys : KeyPress(key)
  \/ SheetTimer
  \/ BitmapTimer
  \/ PauseTimeout

SheetSpec == SheetInit /\ [][SheetNext]_vars

\* ------------------------------------------- pitch app (index-pp.ts driver)
\* The driver object: tunerState is this.tunerState, now is Date.now(), and
\* app holds lastTunerUpdateTime and display, the last updateTunerDisplay call
\* (when it was made and the detectedFrequency it showed; null before any).
\* Transcripts are lower case.
MaxPitchFrames == 5
MaxPitchEvents == 2

PITCH_OFF == <<"p", "i", "t", "c", "h", " ", "o", "f", "f">>
PITCH_ON == <<"p", "i", "t", "c", "h", " ", "o", "n">>

\* lines 44-53: the two tests are independent, "pitch on" is applied last
onPitchTranscription(lowercase, state) ==
  LET off == IF includes(lowercase, PITCH_OFF)
             THEN [state EXCEPT !.isActive = FALSE] ELSE state
  IN  IF includes(lowercase, PITCH_ON) THEN [off EXCEPT !.isActive = TRUE] ELSE off

\* one threshold for both branches of the throttle
throttledDisplay_oneThreshold(a, updatedState, currentTime) ==
  [ app |-> IF currentTime - a.lastTunerUpdateTime > 500
            THEN [lastTunerUpdateTime |-> currentTime,
                  display |-> Some([at |-> currentTime,
                                    frequency |-> updatedState.detectedFrequency])]
            ELSE a,
    tunerState |-> updatedState ]

\* lines 91-113, after this.tunerState = updatedState: updateTunerDisplay is
\* called, and lastTunerUpdateTime set, when the last call is more than
\* 500 ms back and a frequency is detected, or more than 1000 ms back
throttledDisplay(a, updatedState, currentTime) ==
  [ app |-> IF currentTime - a.lastTunerUpdateTime >
                 (IF updatedState.detectedFrequency # null THEN 500 ELSE 1000)
            THEN [lastTunerUpdateTime |-> currentTime,
                  display |-> Some([at |-> currentTime,
                                    frequency |-> updatedState.detectedFrequency])]
            ELSE a,
    tunerState |-> updatedState ]

\* lines 54-115: while the tuner is active the frame is processed and the
\* display updated, throttled
onAudioChunk(a, state, frame, currentTime) ==
  IF ~state.isActive
  THEN [app |-> a, tunerState |-> state]
  ELSE throttledDisplay(a, processTunerAudioChunk(frame, state, currentTime),
                        currentTime)

\* the constructor, lines 24-32; the clock shows some time after 1970
PitchInit ==
  /\ app = [lastTunerUpdateTime |-> 0, display |-> null]
  /\ tunerState = initTunerState
  /\ now = 5000
  /\ lastOp = [op |-> "init"]
  /\ log = <<>>
  /\ nFrames = 0
  /\ nEvents = 0
  /\ call = [fn |-> "none"]
  /\ result = null
  /\ heap = <<>>

PitchAudioChunk(frame, gap) ==
  /\ nFrames < MaxPitchFrames
  /\ now' = now + gap
  /\ LET handled == onAudioChunk(app, tunerState, frame, now')
     IN  app' = handled.app /\ tunerState' = handled.tunerState
  /\ lastOp' = [op |-> "frame", frame |-> frame]
  /\ nFrames' = nFrames + 1
  /\ UNCHANGED <<log, nEvents, call, result, heap>>

PitchTranscription(lowercase) ==
  /\ nEvents < MaxPitchEvents
  /\ tunerState' = onPitchTranscription(lowercase, tunerState)
  /\ lastOp' = [op |-> "transcription"]
  /\ nEvents' = nEvents + 1
  /\ UNCHANGED <<now, log, nFrames, call, result, heap, app>>

PitchNext ==
  \/ \E frame \in HeapFrames, gap \in {250, 501} : PitchAudioChunk(frame, gap)
  \/ \E lowercase \in {PITCH_OFF, PITCH_ON, PITCH_OFF \o <<" ">> \o PITCH_ON} :
       PitchTranscription(lowercase)

PitchSpec == PitchInit /\ [][PitchNext]_vars

\* ------------------------------------------------------------ properties
history == tunerState.recentDetections
bestRecent == tunerState.highestAmplitudeDetection
validEntries == {i \in 1..Len(history) : isValidDetection(history[i])}

\* the state is the result of a frame processed while Active
AfterActiveFrame == lastOp.op = "frame" /\ tunerState.isActive

\* C1: in every reachable state the history holds at most
\* DETECTION_HISTORY_SIZE entries.
C1_HistoryBounded == Len(history) <= DETECTION_HISTORY_SIZE

\* more frames than the capacity were processed and the history is full
C1_Witness == Len(log) > DETECTION_HISTORY_SIZE /\ Len(history) = DETECTION_HISTORY_SIZE

\* C2: after n Active frames the history is the results of the last
\* min(n, 10) frames in delivery order, each carrying the signalStrength and
\* the timestamp of its frame.
C2_HistoryIsLastFrames ==
  LET n == Len(log)
      k == Min(n, DETECTION_HISTORY_SIZE)
  IN  /\ Len(history) = k
      /\ \A i \in 1..k :
            /\ history[i].signalStrength = log[n - k + i].signalStrength
            /\ history[i].timestamp = log[n - k + i].timestamp

\* two entries were evicted, and frames of different strengths are in the history
C2_Witness ==
  /\ Len(log) = DETECTION_HISTORY_SIZE + 2
  /\ Len(history) = DETECTION_HISTORY_SIZE
  /\ history[1].timestamp = log[3].timestamp
  /\ \E i, j \in 1..Len(history) : history[i].signalStrength < history[j].signalStrength

\* C3: after every Active frame update bestRecent is absent or an entry of
\* the history, valid and of maximal signalStrength among the valid entries;
\* it is absent whenever the history holds no valid entry.
C3_BestRecentInHistory ==
  AfterActiveFrame =>
    /\ bestRecent # null =>
          \E i \in validEntries :
            /\ history[i] = bestRecent[1]
            /\ \A j \in validEntries : history[j].signalStrength <= history[i].signalStrength
    /\ validEntries = {} => bestRecent = null

\* C4: whenever bestRecent is present its signalStrength is at least that of
\* every valid entry of the history.
C4_BestRecentIsMaximal ==
  bestRecent # null =>
    \A i \in validEntries : bestRecent[1].signalStrength >= history[i].signalStrength

\* bestRecent is strictly stronger than another valid entry of the history
C4_Witness ==
  /\ bestRecent # null
  /\ \E i \in validEntries : history[i] = bestRecent[1]
  /\ \E i \in validEntries : history[i].signalStrength < bestRecent[1].signalStrength

\* C5: after every Active frame update at time now, a present bestRecent
\* is at most 30000 ms old.
C5_BestRecentIsFresh ==
  AfterActiveFrame /\ bestRecent # null => now - bestRecent[1].timestamp <= STALE_MS

\* C6: while the engine is Inactive a frame leaves the whole state unchanged.
C6_InactivePassThrough ==
  [][(lastOp'.op = "frame" /\ ~tunerState.isActive) => tunerState' = tunerState]_vars

\* a loud frame with an in-band peak was delivered to an Inactive engine
\* that had processed no frame before, and left no trace
C6_Witness ==
  /\ lastOp.op = "frame"
  /\ ~tunerState.isActive
  /\ calculateSignalStrength(lastOp.frame.audioData) >= VOLUME_THRESHOLD
  /\ lastOp.frame.refined \in {Some(f) : f \in InBandRefined}
  /\ tunerState.signalStrength = null
  /\ history = <<>>

allFramesQuiet == \A i \in 1..Len(log) : log[i].signalStrength < VOLUME_THRESHOLD

\* C7: a frame whose signalStrength is below VOLUME_THRESHOLD leaves
\* detectedNote, detectedFrequency and deviation unchanged; as long as every
\* frame was below the threshold the three fields are absent.
C7_QuietFrameKeepsDetection ==
  /\ [](allFramesQuiet =>
          /\ tunerState.detectedNote = null
          /\ tunerState.detectedFrequency = null
          /\ tunerState.deviation = null)
  /\ [][(/\ lastOp'.op = "frame"
          /\ calculateSignalStrength(lastOp'.frame.audioData) < VOLUME_THRESHOLD)
        => /\ tunerState'.detectedNote = tunerState.detectedNote
           /\ tunerState'.detectedFrequency = tunerState.detectedFrequency
           /\ tunerState'.deviation = tunerState.deviation]_vars

\* an Active engine that holds a detection has processed a quiet frame whose
\* spectrum has an in-band peak
C7_Witness ==
  /\ AfterActiveFrame
  /\ lastOp.frame = QUIET
  /\ tunerState.signalStrength = Some(calculateSignalStrength(QUIET.audioData))
  /\ tunerState.detectedNote # null

\* C8: handleTunerCommand applies the first rule that matches, in the order
\* tune-to, deactivate, activate: a tune-to command changes only targetNote,
\* whatever else it contains; "exit tuner mode" deactivates; a command that
\* matches no rule leaves the state as it was.
C8_FirstRuleWins ==
  [][lastOp'.op = "command" =>
       LET command == lastOp'.command
           tuneTo == tuneToMatch(command) # null
           exit == includes(command, EXIT_TUNER) \/ includes(command, CHORD_MODE)
           enter == includes(command, TUNER_MODE) \/ includes(command, TUNE_GUITAR)
       IN  /\ tuneTo => /\ tunerState'.targetNote = toUpperCase(tuneToMatch(command)[1])
                         /\ tunerState' = [tunerState EXCEPT !.targetNote = tunerState'.targetNote]
           /\ ~tuneTo /\ exit => tunerState' = [tunerState EXCEPT !.isActive = FALSE]
           /\ ~tuneTo /\ ~exit /\ enter => tunerState' = [tunerState EXCEPT !.isActive = TRUE]
           /\ ~tuneTo /\ ~exit /\ ~enter => tunerState' = tunerState
           /\ command = TUNE_TO_D_CHORD_MODE =>
                 tunerState' = [tunerState EXCEPT !.targetNote = <<"D">>]
           /\ command = EXIT_TUNER_MODE =>
                 tunerState' = [tunerState EXCEPT !.isActive = FALSE]
           /\ command = HELLO => tunerState' = tunerState]_vars

\* a tune-to command that also says "chord mode" has set the target and
\* left the engine Active
C8_Witness ==
  /\ lastOp.op = "command"
  /\ lastOp.command = TUNE_TO_D_CHORD_MODE
  /\ tunerState.targetNote = <<"D">>
  /\ tunerState.isActive

\* C9: handleTunerCommand changes no field other than isActive and
\* targetNote, and processTunerAudioChunk changes neither of these two.
C9_CommandAndAudioFieldsApart ==
  [][/\ lastOp'.op = "command" =>
          /\ tunerState'.detectedNote = tunerState.detectedNote
          /\ tunerState'.detectedFrequency = tunerState.detectedFrequency
          /\ tunerState'.deviation = tunerState.deviation
          /\ tunerState'.signalStrength = tunerState.signalStrength
          /\ tunerState'.recentDetections = tunerState.recentDetections
          /\ tunerState'.highestAmplitudeDetection = tunerState.highestAmplitudeDetection
     /\ lastOp'.op = "frame" =>
          /\ tunerState'.isActive = tunerState.isActive
          /\ tunerState'.targetNote = tunerState.targetNote]_vars

\* a command has deactivated an engine that holds a detection and a history
C9_Witness ==
  /\ lastOp.op = "command"
  /\ ~tunerState.isActive
  /\ tunerState.detectedNote # null
  /\ bestRecent # null
  /\ history # <<>>

C11_FirstPrefixMatchOrE2 ==
  (call.fn = "getTargetFrequency" /\ result # null) =>
    LET N == Len(NOTE_FREQUENCIES)
        starts(i) == startsWith(NOTE_FREQUENCIES[i].note, call.note)
    IN  /\ result[1] \in Nat
        /\ \/ \E i \in 1..N : /\ starts(i)
                                /\ \A j \in 1..(i - 1) : ~starts(j)
                                /\ result[1] = NOTE_FREQUENCIES[i].freq
           \/ /\ \A i \in 1..N : ~starts(i)
              /\ result[1] = 8241
        /\ call.note = <<"E">> => result[1] = 4120
        /\ call.note = <<"A">> => result[1] = 2750

\* the prefix "E" matches E1, E2, ..., E7 and the first of them is returned
C11_Witness ==
  /\ call.fn = "getTargetFrequency"
  /\ call.note = <<"E">>
  /\ result = Some(4120)

\* the absolute cents deviation of the frequency of the call from each entry
centsFrom(frequency) ==
  [i \in 1..Len(NOTE_FREQUENCIES) |->
     Abs(calculateCentsDeviation(frequency, NOTE_FREQUENCIES[i].freq))]
isOpenString(i) == NOTE_FREQUENCIES[i].note \in guitarOpenStrings

\* C12: findClosestGuitarNote returns the entry of minimum score over the 88
\* entries, the score being the absolute cents deviation less 5 for an open
\* string, and the first such entry in table order when several have it.
C12_MinimumScoreEntry ==
  (call.fn = "findClosestGuitarNote" /\ result # null) =>
    LET N == Len(NOTE_FREQUENCIES)
        cents == centsFrom(call.frequency)
        score == [i \in 1..N |->
                    IF isOpenString(i) THEN cents[i] - OPEN_STRING_BONUS ELSE cents[i]]
    IN  \E i \in 1..N :
          /\ result[1] = NOTE_FREQUENCIES[i].note
          /\ \A j \in 1..N : score[i] <= score[j]
          /\ \A j \in 1..(i - 1) : score[j] > score[i]

\* C13: when an open string and another entry are at the same absolute cents
\* distance from the frequency and no entry is closer, the open string is
\* returned, whichever of the two is first in the table; the exact frequency
\* of an open string (82.41 Hz) maps to that string (E2).
C13_OpenStringWinsTie ==
  (call.fn = "findClosestGuitarNote" /\ result # null) =>
    LET N == Len(NOTE_FREQUENCIES)
        cents == centsFrom(call.frequency)
    IN  /\ \A o \in 1..N : \A n \in 1..N :
              ( /\ isOpenString(o)
                /\ ~isOpenString(n)
                /\ cents[o] = cents[n]
                /\ \A k \in 1..N : cents[k] >= cents[o] )
              => result[1] = NOTE_FREQUENCIES[o].note
        /\ call.frequency = 8241 => result[1] = <<"E", "2">>

\* 80.06 Hz is 50 cents from D#2 and 50 cents from E2, and D#2 comes first
C13_Witness ==
  /\ call.fn = "findClosestGuitarNote"
  /\ result # null
  /\ LET N == Len(NOTE_FREQUENCIES)
         cents == centsFrom(call.frequency)
     IN  \E o \in 1..N : \E n \in 1..(o - 1) :
           /\ isOpenString(o)
           /\ ~isOpenString(n)
           /\ cents[o] = cents[n]
           /\ \A k \in 1..N : cents[k] >= cents[o]
           /\ result[1] = NOTE_FREQUENCIES[o].note

\* C14: formatTunerDisplay chooses its message by fixed priority: the
\* "volume too low" message whenever signalStrength is present and below the
\* threshold, whatever bestRecent is; otherwise the "no pitch detected"
\* message exactly when bestRecent is absent or has no note (the initial
\* state, where signalStrength is absent, included); otherwise the rendering
\* of bestRecent: frequency, strength, note and whole seconds since detection.
C14_DisplayPriority ==
  LET display == formatTunerDisplay(tunerState, now)
      tooQuiet == /\ tunerState.signalStrength # null
                  /\ tunerState.signalStrength[1] < VOLUME_THRESHOLD
      noNote == bestRecent = null \/ bestRecent[1].note = null
      seconds == (now - bestRecent[1].timestamp) \div 1000
  IN  /\ tooQuiet => display[1] = "\n\nVolume too low. Play louder.\nThreshold: "
      /\ ~tooQuiet => (noNote <=> display = <<"\n\nNo pitch detected. Play a note.">>)
      /\ (~tooQuiet /\ ~noNote) =>
           /\ display[1] = "Frequency: "
           /\ \E i \in 1..Len(display) :
                /\ display[i] = "\nStrength: "
                /\ SubSeq(display, i + 1, i + Len(toFixed1(bestRecent[1].signalStrength)))
                     = toFixed1(bestRecent[1].signalStrength)
           /\ \E i \in 1..Len(display) :
                /\ display[i] = "\n\nClosest note: "
                /\ SubSeq(display, i + 1, i + Len(bestRecent[1].note[1])) = bestRecent[1].note[1]
           /\ \E i \in 1..Len(display) :
                /\ display[i] = "\n\nDetected "
                /\ SubSeq(display, i + 1, Len(display))
                     = Digits(seconds) \o <<" second">>
                         \o (IF seconds = 1 THEN <<>> ELSE <<"s">>) \o <<" ago">>
      /\ tunerState = initTunerState => display = <<"\n\nNo pitch detected. Play a note.">>

\* a quiet frame has just been processed while bestRecent holds a detection
C14_Witness ==
  /\ AfterActiveFrame
  /\ tunerState.signalStrength # null
  /\ tunerState.signalStrength[1] < VOLUME_THRESHOLD
  /\ bestRecent # null
  /\ formatTunerDisplay(tunerState, now) = VOLUME_TOO_LOW

\* C15: after an Active engine processes a frame below the threshold, the
\* state's signalStrength is the strength of that frame (0 for an all-zero
\* frame) and formatTunerDisplay of the state is the "volume too low"
\* message, whatever was detected before and also while bestRecent holds a
\* valid recent detection.
C15_QuietFrameShowsVolumeTooLow ==
  (AfterActiveFrame /\ calculateSignalStrength(lastOp.frame.audioData) < VOLUME_THRESHOLD) =>
    /\ tunerState.signalStrength
         = Some(calculateSignalStrength(lastOp.frame.audioData))
    /\ (\A i \in 1..Len(lastOp.frame.audioData) : lastOp.frame.audioData[i] = 0)
         => tunerState.signalStrength = Some(0)
    /\ formatTunerDisplay(tunerState, now)
         = <<"\n\nVolume too low. Play louder.\nThreshold: ", "3", ".", "0", "%">>

\* an all-zero frame right after a pitched one: bestRecent is one second old
C15_Witness ==
  /\ AfterActiveFrame
  /\ \A i \in 1..Len(lastOp.frame.audioData) : lastOp.frame.audioData[i] = 0
  /\ bestRecent # null
  /\ isValidDetection(bestRecent[1])
  /\ now - bestRecent[1].timestamp <= 1000
  /\ tunerState.signalStrength = Some(0)
  /\ formatTunerDisplay(tunerState, now)[1] = "\n\nVolume too low. Play louder.\nThreshold: "

\* the peak and the refined frequency of the spectrum of a detectPitch call
peakOfCall ==
  findPeakFrequency(call.magnitudeSpectrum, call.sampleRate, nextPowerOf2(Len(call.audioData)))
refinedOfCall ==
  refineFrequencyEstimate(call.magnitudeSpectrum, peakOfCall[1].index, call.sampleRate,
                          nextPowerOf2(Len(call.audioData)))

\* C16: detectPitch returns no pitch (null) or a frequency f with
\* MIN_FREQUENCY <= f <= MAX_FREQUENCY (70 to 350 Hz); a refined frequency
\* outside the band, or one that is not a number, is returned as no pitch.
C16_PitchIsNullOrInBand ==
  (call.fn = "detectPitch" /\ result # null) =>
    /\ \/ result[1] = null
       \/ (result[1][1] >= 7000 /\ result[1][1] <= 35000)
    /\ ( /\ peakOfCall # null
          /\ \/ refinedOfCall.kind # "finite"
             \/ refinedOfCall.value < 7000
             \/ refinedOfCall.value > 35000 )
         => result[1] = null

\* a loud frame whose spectrum is flat around the peak: the refined value is
\* NaN, and no pitch is returned
C16_Witness ==
  /\ call.fn = "detectPitch"
  /\ calculateSignalStrength(call.audioData) >= VOLUME_THRESHOLD
  /\ peakOfCall # null
  /\ refinedOfCall = NaN
  /\ result = Some(null)

\* the neighbours of the peak bin of a refineFrequencyEstimate call
alphaOfCall == call.magnitudeSpectrum[call.peakIndex]
betaOfCall == call.magnitudeSpectrum[call.peakIndex + 1]
gammaOfCall == call.magnitudeSpectrum[call.peakIndex + 2]
interiorPeak == call.peakIndex > 0 /\ call.peakIndex < Len(call.magnitudeSpectrum) - 1

\* the result is the bin frequency peakIndex * sampleRate / fftSize, to the
\* nearest centi-hertz
isBinFrequency(number) ==
  /\ number.kind = "finite"
  /\ 2 * Abs(number.value * call.fftSize - 100 * call.peakIndex * call.sampleRate)
       <= call.fftSize

\* C17: in refineFrequencyEstimate, when the denominator alpha - 2 beta + gamma
\* of the interpolation is exactly zero at an interior peak, the interpolation
\* is skipped and the bin frequency peakIndex * sampleRate / fftSize returned.
\* (Taken at a peak that findPeakFrequency can return: at least 0.01 and not
\* below its neighbours.)
C17_ZeroDenominatorGivesBinFrequency ==
  ( /\ call.fn = "refineFrequencyEstimate"
    /\ result # null
    /\ interiorPeak
    /\ betaOfCall >= PEAK_FLOOR
    /\ betaOfCall >= alphaOfCall
    /\ betaOfCall >= gammaOfCall
    /\ alphaOfCall - 2 * betaOfCall + gammaOfCall = 0 )
  => isBinFrequency(result[1])

\* C18: in refineFrequencyEstimate, when the peak index is 0 or the last
\* valid index of the spectrum, the result is exactly the bin frequency
\* peakIndex * sampleRate / fftSize, no neighbour entering it.
C18_EdgePeakGivesBinFrequency ==
  ( /\ call.fn = "refineFrequencyEstimate"
    /\ result # null
    /\ call.peakIndex \in {0, Len(call.magnitudeSpectrum) - 1} )
  => isBinFrequency(result[1])

\* the peak is the last bin of a spectrum that rises to it
C18_Witness ==
  /\ call.fn = "refineFrequencyEstimate"
  /\ call.magnitudeSpectrum = <<0, 5, 20, 40>>
  /\ call.peakIndex = 3
  /\ call.sampleRate = 800
  /\ result = Some(Finite(30000))

C20_SingleSampleUnchanged ==
  ( /\ call.fn = "applyHammingWindow"
    /\ result # null
    /\ Len(call.audioData) = 1 )
  => result[1] = <<Finite(call.audioData[1])>>

\* the objects of the heap are, one by one, what they were before the step
objectsUnchanged ==
  /\ \A i \in 1..Len(heap.states) : heap'.states[i] = heap.states[i]
  /\ \A i \in 1..Len(heap.arrays) : heap'.arrays[i] = heap.arrays[i]
  /\ \A i \in 1..Len(heap.detections) : heap'.detections[i] = heap.detections[i]

\* C21: processTunerAudioChunk and handleTunerCommand never mutate their
\* input state: after either call the state the caller passed, with its
\* history and the entries of it, is field for field what it was before.
C21_InputStateNotMutated ==
  [][ /\ derefState(heap', heap.tunerState) = derefState(heap, heap.tunerState)
      /\ objectsUnchanged ]_vars

\* the heap and the value-level model agree on the driver's state
HeapAgreesWithValues == derefState(heap, heap.tunerState) = tunerState

\* a frame has been processed on a full history: the state passed to the call
\* still has its ten entries, the oldest of which the returned state dropped
C21_Witness ==
  /\ lastOp.op = "frame"
  /\ heap.tunerState > 1
  /\ LET before == derefState(heap, heap.tunerState - 1)
         after == derefState(heap, heap.tunerState)
     IN  /\ Len(before.recentDetections) = DETECTION_HISTORY_SIZE
         /\ Len(after.recentDetections) = DETECTION_HISTORY_SIZE
         /\ after.recentDetections[1] = before.recentDetections[2]
         /\ after.signalStrength # before.signalStrength

\* note, frequency and deviation are all present or all absent
allOrNone(note, frequency, deviation) ==
  \/ (note # null /\ frequency # null /\ deviation # null)
  \/ (note = null /\ frequency = null /\ deviation = null)

\* C22: every DetectionResult in the history has note, frequency and
\* deviation all present or all absent and a signalStrength in [0, 1]; the
\* state's detectedNote, detectedFrequency and deviation are likewise all
\* present or all absent, in every reachable state.
C22_DetectionFieldsTogether ==
  /\ \A i \in 1..Len(history) :
       /\ allOrNone(history[i].note, history[i].frequency, history[i].deviation)
       /\ history[i].signalStrength >= 0
       /\ history[i].signalStrength <= 1000
  /\ allOrNone(tunerState.detectedNote, tunerState.detectedFrequency, tunerState.deviation)

\* the history holds a pitched entry of clamped strength 1 and an unpitched one
C22_Witness ==
  /\ \E i \in 1..Len(history) :
       history[i].note # null /\ history[i].signalStrength = 1000
  /\ \E i \in 1..Len(history) : history[i].note = null
  /\ tunerState.detectedNote # null

\* C23: in the sheet-music app the selected song index stays within
\* 0 .. songs.length - 1 under "show catalog", "next" and "previous", so that
\* the selected song is defined and a catalog command renders its lines
\* without failing ("previous" at index 0 wraps to the last song).
C23_SelectedSongInRange ==
  /\ songDefined(app.selectedSongIndex)
  /\ app.thrown # "showCatalog"

\* C24: after an "exit" command, until a further voice command is processed,
\* currentState is IDLE, showingSheet is false and no sheet-advance or
\* keep-alive interval is running; a timer or timeout callback that runs in
\* that time (the brief-pause timeout included) leaves image_index as it was
\* and shows no sheet bitmap.
callbackOps == {"sheetTimer", "bitmapTimer", "pauseTimeout", "startupTimeout"}

C24_ExitStopsSheet ==
  [][ afterExit'
        => /\ app'.currentState = "IDLE"
           /\ ~app'.showingSheet
           /\ app'.sheetInterval = "null"
           /\ app'.bitmapInterval = "null"
           /\ app'.leaked = {}
           /\ lastOp'.op \in callbackOps
                => /\ app'.image_index = app.image_index
                   /\ app'.display # "sheet" ]_vars

\* the brief-pause timeout scheduled while a sheet scrolled has fired after
\* the exit command
C24_Witness ==
  /\ afterExit
  /\ lastOp.op = "pauseTimeout"
  /\ app.appMode = "AUTO"
  /\ app.currentState = "IDLE"

\* C25: while appMode is MANUAL the sheet-advance interval does not advance
\* the measure: no tick of it changes image_index, the measure changes only
\* through the "[" and "]" keys.
C25_NoSheetAdvanceInManual ==
  [][ app.appMode = "MANUAL" /\ lastOp'.op = "sheetTimer"
        => app'.image_index = app.image_index ]_vars

\* C26: a frame that yields the frequency f stores 0.7 f + 0.3 prev when
\* |f - prev| / prev * 100 < 3 and 0.9 f + 0.1 prev otherwise (exactly 3
\* percent included), prev being the detectedFrequency of the state the frame
\* is processed on; it stores f itself when that is absent; a frame that
\* yields no frequency leaves detectedFrequency as it was, so that prev is
\* the last stored value whatever lies in between.  Stored values are
\* centi-hertz, so a blend is met to within half a unit.
blendOf(stored, newShare, f, prev) ==
  Abs(10 * stored - (newShare * f + (10 - newShare) * prev)) <= 5

C26_SmoothedFrequency ==
  ( /\ call.fn = "processTunerAudioChunk"
    /\ result # null
    /\ call.tunerState.isActive )
  => LET f == detectedFrequencyOf(call.frame)
         prev == call.tunerState.detectedFrequency
         stored == result[1].detectedFrequency
     IN  IF f = null THEN stored = prev
         ELSE IF prev = null THEN stored = f
         ELSE IF 100 * Abs(f[1] - prev[1]) < 3 * prev[1]
         THEN stored # null /\ blendOf(stored[1], 7, f[1], prev[1])
         ELSE stored # null /\ blendOf(stored[1], 9, f[1], prev[1])

\* 82.40 Hz after 80.00 Hz, exactly 3 percent: 0.9 * 82.40 + 0.1 * 80.00
C26_Witness ==
  /\ call.fn = "processTunerAudioChunk"
  /\ call.tunerState.detectedFrequency = Some(8000)
  /\ detectedFrequencyOf(call.frame) = Some(8240)
  /\ result # null
  /\ result[1].detectedFrequency = Some(8216)

\* C27: in every reachable state detectedFrequency and the frequency of every
\* history entry are absent or within [MIN_FREQUENCY, MAX_FREQUENCY], so the
\* previous frequency the smoothing step divides by is never zero.
inFrequencyBand(frequency) ==
  frequency # null => frequency[1] >= MIN_FREQUENCY /\ frequency[1] <= MAX_FREQUENCY

C27_StoredFrequenciesInBand ==
  /\ inFrequencyBand(tunerState.detectedFrequency)
  /\ \A i \in 1 .. Len(history) : inFrequencyBand(history[i].frequency)
  /\ tunerState.detectedFrequency # Some(0)

\* a blend of two in-band frequencies is stored, in the state and in the
\* history next to the unblended first detection
C27_Witness ==
  /\ tunerState.detectedFrequency # null
  /\ tunerState.detectedFrequency[1] \notin InBandRefined
  /\ \E i \in 1 .. Len(history) : history[i].frequency = tunerState.detectedFrequency
  /\ \E i \in 1 .. Len(history) :
        history[i].frequency # null /\ history[i].frequency[1] \in InBandRefined

\* C28: once detectedNote, detectedFrequency and deviation are present they
\* are present in every later state: no frame and no command makes them
\* absent, so the driver's branch for an absent detectedFrequency runs only
\* before the first detection.
C28_DetectionStaysPresent ==
  [][ /\ tunerState.detectedNote # null => tunerState'.detectedNote # null
      /\ tunerState.detectedFrequency # null => tunerState'.detectedFrequency # null
      /\ tunerState.deviation # null => tunerState'.deviation # null ]_vars

\* the detection is still shown after bestRecent was cleared and the last
\* valid entry left the history
C28_Witness ==
  /\ lastOp.op = "frame"
  /\ tunerState.isActive
  /\ tunerState.detectedNote # null
  /\ tunerState.detectedFrequency # null
  /\ tunerState.deviation # null
  /\ bestRecent = null
  /\ validEntries = {}
  /\ Len(history) = DETECTION_HISTORY_SIZE

\* C29: after a frame processed while Active, a present bestRecent is, when
\* the history holds valid entries, the oldest of those of maximal
\* signalStrength; a frame puts another entry in its place only if that entry
\* is strictly stronger or the former one has left the history.
strongestEntries(detections) ==
  {i \in 1 .. Len(detections) :
     /\ isValidDetection(detections[i])
     /\ \A j \in 1 .. Len(detections) :
          isValidDetection(detections[j])
            => detections[j].signalStrength <= detections[i].signalStrength}

C29_OldestOfStrongest ==
  [][ (lastOp'.op = "frame" /\ tunerState.isActive)
        => LET before == tunerState.highestAmplitudeDetection
               after == tunerState'.highestAmplitudeDetection
               entries == tunerState'.recentDetections
               strongest == strongestEntries(entries)
           IN  /\ (after # null /\ strongest # {})
                    => /\ after[1] = entries[CHOOSE i \in strongest :
                                                \A j \in strongest : i <= j]
                       /\ \A i \in strongest : entries[i].timestamp >= after[1].timestamp
               /\ (before # null /\ after # null /\ after # before)
                    => \/ after[1].signalStrength > before[1].signalStrength
                       \/ \A i \in 1 .. Len(entries) : entries[i] # before[1] ]_vars

\* two valid entries of the history are clamped to strength 1 and bestRecent
\* is the older one
C29_Witness ==
  /\ AfterActiveFrame
  /\ bestRecent # null
  /\ \E i, j \in validEntries :
        /\ i < j
        /\ history[i].signalStrength = 1000
        /\ history[j].signalStrength = 1000
        /\ history[i] = bestRecent[1]
        /\ history[j] = history[Len(history)]

\* C30: when a valid entry of maximal signalStrength in the updated history
\* is older than 30000 ms, bestRecent is absent after the update, younger
\* valid entries of lower strength notwithstanding; a present bestRecent is
\* one of the strongest valid entries, so a weaker entry takes the place only
\* once the stronger one has left the history.
C30_StaleStrongestHidesYounger ==
  ( /\ call.fn = "processTunerAudioChunk"
    /\ result # null
    /\ call.tunerState.isActive )
  => LET entries == result[1].recentDetections
         strongest == strongestEntries(entries)
         best == result[1].highestAmplitudeDetection
     IN  /\ (\E i \in strongest :
                call.currentTimestamp - entries[i].timestamp > STALE_MS)
               => best = null
         /\ (best # null /\ strongest # {})
               => \E i \in strongest : entries[i] = best[1]

\* the loud detection is 30001 ms old and the faint one, 29001 ms old, is
\* not bestRecent
C30_Witness ==
  /\ call.fn = "processTunerAudioChunk"
  /\ call.currentTimestamp = 31001
  /\ result # null
  /\ result[1].highestAmplitudeDetection = null
  /\ LET entries == result[1].recentDetections
     IN  /\ isValidDetection(entries[1]) /\ entries[1].timestamp = 1000
         /\ entries[1].signalStrength = 1000
         /\ isValidDetection(entries[2]) /\ entries[2].timestamp = 2000
         /\ entries[2].signalStrength < 1000

\* C31: a tune-to command with a flat (a letter followed by "b") stores the
\* upper-cased two-letter name as targetNote; the name is a prefix of no
\* entry of the note table, so the deviation of a later frame is computed
\* against the frequency of E2.
flatCommand ==
  /\ call.fn = "processTunerAudioChunk"
  /\ "command" \in DOMAIN call
  /\ Len(call.command) = 10
  /\ call.command[10] \in {"b", "B"}

C31_FlatTargetFallsBackToE2 ==
  flatCommand
    => LET name == toUpperCase(SubSeq(call.command, 9, 10))
       IN  /\ call.tunerState.targetNote = name
           /\ \A i \in 1 .. Len(NOTE_FREQUENCIES) :
                 ~startsWith(NOTE_FREQUENCIES[i].note, name)
           /\ (result # null /\ detectedFrequencyOf(call.frame) # null)
                 => /\ result[1].targetNote = name
                    /\ result[1].deviation =
                         Some(calculateCentsDeviation(result[1].detectedFrequency[1], 8241))

\* after "tune to ab" a frame at 110.00 Hz, the pitch of A2, is reported
\* about five semitones sharp
C31_Witness ==
  /\ flatCommand
  /\ call.tunerState.targetNote = <<"A", "B">>
  /\ result # null
  /\ result[1].detectedFrequency = Some(11000)
  /\ result[1].deviation = Some(calculateCentsDeviation(11000, 8241))
  /\ result[1].deviation[1] > 400

\* C32: in the pitch app two consecutive updateTunerDisplay calls are more
\* than 500 ms apart when the later one shows a detectedFrequency and more
\* than 1000 ms apart when it shows none; while tunerState.isActive is false
\* a frame is not processed and updates nothing.
C32_DisplayThrottled ==
  [][ lastOp'.op = "frame"
        => /\ ~tunerState.isActive => (tunerState' = tunerState /\ app' = app)
           /\ (app.display # null /\ app'.display # app.display)
                => /\ app'.display # null
                   /\ app'.display[1].at = now'
                   /\ app'.display[1].frequency = tunerState'.detectedFrequency
                   /\ now' - app.display[1].at
                        > (IF tunerState'.detectedFrequency # null THEN 500 ELSE 1000) ]_vars

\* a second update that shows no frequency, 1001 ms after the first; the
\* frames 250 ms and 500 ms after the first updated nothing
C32_Witness ==
  /\ lastOp.op = "frame"
  /\ app.display # null
  /\ app.display[1].frequency = null
  /\ app.display[1].at = 5250 + 1001
  /\ nFrames = 4

\* C33: when loadAndDisplaySheet cannot load the bitmap of image_index the
\* app is left IDLE, not showing a sheet, with no interval running; no timer
\* or timeout callback that follows changes image_index.
C33_FailedLoadStopsSheet ==
  [][ /\ app'.thrown = "loadAndDisplaySheet"
           => /\ app'.currentState = "IDLE"
              /\ ~app'.showingSheet
              /\ app'.sheetInterval = "null"
              /\ app'.bitmapInterval = "null"
              /\ app'.leaked = {}
      /\ (app.thrown = "loadAndDisplaySheet" /\ lastOp'.op \in callbackOps)
           => app'.image_index = app.image_index ]_vars

\* the sheet-advance interval ran past the last measure of the song
C33_Witness ==
  /\ lastOp.op = "sheetTimer"
  /\ app.thrown = "loadAndDisplaySheet"
  /\ songDefined(app.selectedSongIndex)
  /\ app.image_index = SheetsPerSong
  /\ app.currentState = "IDLE"

\* C34, as stated: after a "pause" or "stop" command in PLAYING_SHEET, until
\* a "start" or "resume" command, isPaused is true, no timer or timeout
\* callback changes image_index, and a key press (";" to AUTO mode) starts no
\* sheet-advance interval.
pausedSheet ==
  /\ app'.isPaused
  /\ lastOp'.op \in callbackOps => app'.image_index = app.image_index
  /\ (lastOp'.op = "key" /\ app'.sheetInterval = "running")
       => (app.sheetInterval = "running" /\ app'.leaked = app.leaked)

C34_PausedUntilStartOrResume ==
  [][ afterPause' \in {"yes", "selected"} => pausedSheet ]_vars

\* C34, amended: after a "pause" or "stop" command in PLAYING_SHEET, until a
\* "start" or "resume" command or the selection of a song ("select" in the
\* catalog), isPaused is true, no timer or timeout callback changes
\* image_index, and a key press (";" to AUTO mode) starts no sheet-advance
\* interval.
C34_PausedUntilStartResumeOrSelect ==
  [][ afterPause' = "yes" => pausedSheet ]_vars

\* the ";" key switched a paused sheet to AUTO mode
C34_Witness ==
  /\ afterPause = "yes"
  /\ lastOp.op = "key"
  /\ app.appMode = "AUTO"
  /\ app.showingSheet
  /\ app.currentState = "PLAYING_SHEET"
  /\ app.isPaused
  /\ app.sheetInterval = "null"
  /\ app.timeouts = 0

\* C35: under any interleaving of voice commands, key presses, interval ticks
\* and timeout callbacks, no interval is created while an earlier interval of
\* the same kind is still running, so at most one sheet-advance interval and
\* at most one keep-alive interval are live: the handle fields hold the only
\* running intervals.
C35_AtMostOneIntervalOfEachKind ==
  app # <<>> => app.leaked = {}

\* the brief-pause timeout created a sheet-advance interval after the "[" key
\* had cleared the previous one
C35_Witness ==
  /\ lastOp.op = "pauseTimeout"
  /\ app.sheetInterval = "running"
  /\ app.appMode = "AUTO"
  /\ app.leaked = {}

====
